---- MODULE Spec2Model ----
(***************************************************************************)
(* MCP health-check subsystem of my-agent-too:                             *)
(*   backend/app/services/mcp_health.py   (check_server_health, _kill,     *)
(*                                          _read_response)                *)
(*   backend/app/services/mcp_registry.py (get_server,                     *)
(*                                          update_server_health)          *)
(*   backend/app/models/mcp.py            (MCPServerStatus, MCPToolSchema, *)
(*                                          MCPHealthResult)               *)
(*                                                                         *)
(* Every health check is one asyncio task.  A task only yields at its      *)
(* `await`s, so each action below is the code between two awaits.          *)
(* The code of one such segment is translated to a pure "step" operator    *)
(* that returns the ordered list of side effects the segment performs      *)
(* (write a line, _kill, update_server_health, return, suspend); the       *)
(* action applies that list to the state.                                  *)
(***************************************************************************)
EXTENDS Integers, Sequences, FiniteSets, TLC

(***************************************************************************)
(* Bounds of the model.                                                    *)
(***************************************************************************)
NumTasks == 2      \* concurrent check_server_health tasks
MaxTime  == 1      \* distinct values datetime.utcnow() can return
MaxObjects == 2    \* WizardSession objects constructed (StoreSpec)
MaxClock == 1      \* last reading of the clock (StoreSpec)
MaxKills == 2      \* _kill calls on one process (KillSpec)

Tasks == 1..NumTasks
Times == 1..MaxTime

(***************************************************************************)
(* Python values.  Every value is a tagged record; json.loads yields       *)
(* None, bool, int, str, list or dict.  A str is its sequence of           *)
(* characters, a dict a function from keys to values.                      *)
(***************************************************************************)
None == [t |-> "None"]
PyBool(b) == [t |-> "bool", b |-> b]
PyInt(n) == [t |-> "int", n |-> n]
PyStr(s) == [t |-> "str", s |-> s]
PyList(a) == [t |-> "list", a |-> a]
PyDict(o) == [t |-> "dict", o |-> o]
EmptyDict == PyDict([k \in {} |-> None])

\* the characters of the key "result"
ResultChars == <<"r", "e", "s", "u", "l", "t">>
EmptyStr == PyStr(<<>>)
ResultStr == PyStr(ResultChars)
PingStr == PyStr(<<"p", "i", "n", "g">>)

\* outcome of evaluating a Python expression: a value or a raised exception
Ok(v) == [raised |-> FALSE, v |-> v]
Raise(e) == [raised |-> TRUE, exc |-> e]

\* bool(v): the truth value Python gives `v` in `not v` / `if v`
Truthy(v) ==
  CASE v.t = "None" -> FALSE
    [] v.t = "bool" -> v.b
    [] v.t = "int"  -> v.n # 0
    [] v.t = "str"  -> Len(v.s) > 0
    [] v.t = "list" -> Len(v.a) > 0
    [] v.t = "dict" -> DOMAIN v.o # {}

\* `"result" in v`: key test on a dict, element test on a list, substring
\* test on a str, TypeError on anything else
InResult(v) ==
  CASE v.t = "dict" -> Ok("result" \in DOMAIN v.o)
    [] v.t = "list" -> Ok(\E i \in 1..Len(v.a) : v.a[i] = ResultStr)
    [] v.t = "str"  -> Ok(\E i \in 1..(Len(v.s) - Len(ResultChars) + 1) :
                            SubSeq(v.s, i, i + Len(ResultChars) - 1) = ResultChars)
    [] OTHER        -> Raise("TypeError")

\* `v["result"]`
ItemResult(v) ==
  CASE v.t = "dict" -> IF "result" \in DOMAIN v.o THEN Ok(v.o["result"])
                                                  ELSE Raise("KeyError")
    [] OTHER        -> Raise("TypeError")

\* `v.get(key, default)`: only dict has .get
DictGet(v, key, default) ==
  IF v.t = "dict"
    THEN Ok(IF key \in DOMAIN v.o THEN v.o[key] ELSE default)
    ELSE Raise("AttributeError")

\* `for t in v`: the elements a for-loop visits
Iterate(v) ==
  CASE v.t = "list" -> Ok(v.a)
    [] v.t = "str"  -> Ok([i \in 1..Len(v.s) |-> PyStr(<<v.s[i]>>)])
    \* a dict yields its keys, which are str objects (their text is not kept)
    [] v.t = "dict" -> Ok([i \in 1..Cardinality(DOMAIN v.o) |-> PyStr(<<"k">>)])
    [] OTHER        -> Raise("TypeError")

(***************************************************************************)
(* models/mcp.py                                                           *)
(***************************************************************************)
UNKNOWN == "unknown"
HEALTHY == "healthy"
UNHEALTHY == "unhealthy"
CHECKING == "checking"
MCPServerStatus == {UNKNOWN, HEALTHY, UNHEALTHY, CHECKING}

\* MCPToolSchema(name=.., description=.., input_schema=..): pydantic accepts
\* a str, a str and a dict and raises ValidationError otherwise
MCPToolSchema(name, description, input_schema) ==
  IF name.t = "str" /\ description.t = "str" /\ input_schema.t = "dict"
    THEN Ok([name |-> name, description |-> description,
             input_schema |-> input_schema])
    ELSE Raise("ValidationError")

\* MCPHealthResult; response_time_ms and checked_at are clock readings and
\* are not kept
MCPHealthResult(server_id, status, tools, error) ==
  [server_id |-> server_id, status |-> status, tools_count |-> Len(tools),
   tools |-> tools, error |-> error]

(***************************************************************************)
(* services/mcp_registry.py                                                *)
(***************************************************************************)
\* the ids of the registry (two of its entries), the one entry the health
\* checks of the model address, and an id the registry does not hold
ServerIds == {"postgres", "slack"}
CheckedIds == {"postgres"}
UnknownIds == {"no-such-server"}
AllIds == CheckedIds \cup UnknownIds

\* an MCPServerEntry as _reg stores it: status UNKNOWN, no tools, no check
MCPServerEntry(id) ==
  [id |-> id, command |-> "npx",
   category |-> IF id = "postgres" THEN "data" ELSE "communication",
   is_official |-> TRUE,
   status |-> UNKNOWN, tools |-> <<>>, last_health_check |-> None]

\* _SERVERS.get(server_id)
get_server(servers, server_id) ==
  IF server_id \in DOMAIN servers THEN servers[server_id] ELSE None

\* list_servers(category, official_only): the entries in registration
\* order, filtered.  (The `search` filter is left at its default, None.)
list_servers(servers_, category, official_only) ==
  LET results == << servers_["postgres"], servers_["slack"] >>
      by_category == IF Truthy(category)
                       THEN SelectSeq(results, LAMBDA e : PyStr(<<e.category>>) = category)
                       ELSE results
  IN  IF official_only
        THEN SelectSeq(by_category, LAMBDA e : e.is_official)
        ELSE by_category

\* mutant: omitted tools clear the cached tools
update_server_health_resetsTools(servers_, server_id, status, tools, now) ==
  IF server_id \in DOMAIN servers_
    THEN [servers_ EXCEPT ![server_id] =
            [@ EXCEPT !.status = status,
                      !.tools = IF tools # None THEN tools.a ELSE <<>>,
                      !.last_health_check = PyInt(now)]]
    ELSE servers_

\* mutant: supplied tools are appended to the cached ones
update_server_health_appends(servers_, server_id, status, tools, now) ==
  IF server_id \in DOMAIN servers_
    THEN [servers_ EXCEPT ![server_id] =
            [@ EXCEPT !.status = status,
                      !.tools = IF tools # None THEN @ \o tools.a ELSE @,
                      !.last_health_check = PyInt(now)]]
    ELSE servers_

\* mutant: `if tools:` - an empty tools list leaves the cached tools
update_server_health_keepsOnEmpty(servers_, server_id, status, tools, now) ==
  IF server_id \in DOMAIN servers_
    THEN [servers_ EXCEPT ![server_id] =
            [@ EXCEPT !.status = status,
                      !.tools = IF Truthy(tools) THEN tools.a ELSE @,
                      !.last_health_check = PyInt(now)]]
    ELSE servers_

\* mutant: the status is set at once, the tools only after a suspension
\* (not in the step of the call)
update_server_health_toolsLater(servers_, server_id, status, tools, now) ==
  IF server_id \in DOMAIN servers_
    THEN [servers_ EXCEPT ![server_id] =
            [@ EXCEPT !.status = status,
                      !.last_health_check = PyInt(now)]]
    ELSE servers_

\* mutant: last_health_check is not stamped
update_server_health_noStamp(servers_, server_id, status, tools, now) ==
  IF server_id \in DOMAIN servers_
    THEN [servers_ EXCEPT ![server_id] =
            [@ EXCEPT !.status = status,
                      !.tools = IF tools # None THEN tools.a ELSE @]]
    ELSE servers_

\* mutant: a status once HEALTHY is never overwritten
update_server_health_sticky(servers, server_id, status, tools, now) ==
  IF server_id \in DOMAIN servers
    THEN [servers EXCEPT ![server_id] =
            [@ EXCEPT !.status = IF @ = HEALTHY THEN @ ELSE status,
                      !.tools = IF tools # None THEN tools.a ELSE @,
                      !.last_health_check = PyInt(now)]]
    ELSE servers

\* update_server_health(server_id, status, tools=None); `now` is what
\* datetime.utcnow() returns
update_server_health(servers, server_id, status, tools, now) ==
  IF server_id \in DOMAIN servers
    THEN [servers EXCEPT ![server_id] =
            [@ EXCEPT !.status = status,
                      !.tools = IF tools # None THEN tools.a ELSE @,
                      !.last_health_check = PyInt(now)]]
    ELSE servers

(***************************************************************************)
(* services/mcp_health.py: the environment of the spawned process          *)
(***************************************************************************)
\* os.environ as the backend process starts: variable name -> value
os_environ == [PATH |-> "/usr/bin", X |-> "0"]

\* mutant: the ambient value wins on a name both define
spawn_env_ambientWins(environ_, env_overrides) ==
  IF Truthy(env_overrides)
    THEN PyDict([k \in DOMAIN environ_ \cup DOMAIN env_overrides.o |->
                   IF k \in DOMAIN environ_ THEN environ_[k]
                                           ELSE env_overrides.o[k]])
    ELSE PyDict(environ_)

\* lines 86-88: env = {**os.environ_}; if env_overrides: env.update(env_overrides)
spawn_env(environ_, env_overrides) ==
  IF Truthy(env_overrides)
    THEN PyDict([k \in DOMAIN environ_ \cup DOMAIN env_overrides.o |->
                   IF k \in DOMAIN env_overrides.o THEN env_overrides.o[k]
                                                   ELSE environ_[k]])
    ELSE PyDict(environ_)

\* mutant: `env = os.environ`, no copy: the update lands in os.environ
build_env_noCopy(environ_, env_overrides) ==
  [env |-> spawn_env(environ_, env_overrides),
   environ |-> spawn_env(environ_, env_overrides).o,
   env_overrides |-> env_overrides]

\* lines 86-88 with the objects they read: `env` is a new dict; os.environ
\* and the caller's env_overrides are read and not assigned to
build_env(environ_, env_overrides) ==
  [env |-> spawn_env(environ_, env_overrides),
   environ |-> environ_,
   env_overrides |-> env_overrides]

(***************************************************************************)
(* services/mcp_health.py: transport helpers                               *)
(***************************************************************************)
_JSONRPC_INIT == [jsonrpc |-> "2.0", id |-> 1, method |-> "initialize"]
_JSONRPC_INITIALIZED == [jsonrpc |-> "2.0", method |-> "notifications/initialized"]
_JSONRPC_LIST_TOOLS == [jsonrpc |-> "2.0", id |-> 2, method |-> "tools/list"]

\* What one `await stdout.readline()` under wait_for can bring:
\*   timeout   nothing within the timeout        (asyncio.TimeoutError)
\*   eof       b"" : the stream is closed
\*   overrun   a line longer than the reader's limit (readline: ValueError)
\*   bad_utf8  a line that is not UTF-8          (decode: UnicodeDecodeError)
\*   not_json  text that is not JSON             (json.JSONDecodeError)
\*   json      the JSON text of value v
Timeout == [k |-> "timeout"]
Eof == [k |-> "eof"]
Overrun == [k |-> "overrun"]
BadUtf8 == [k |-> "bad_utf8"]
NotJson == [k |-> "not_json"]
JsonLine(v) == [k |-> "json", v |-> v]

\* _read_response(stdout, timeout)
_read_response(line) ==
  CASE line.k = "timeout"  -> Ok(None)
    [] line.k = "eof"      -> Ok(None)
    [] line.k = "overrun"  -> Raise("ValueError")
    [] line.k = "bad_utf8" -> Raise("UnicodeDecodeError")
    [] line.k = "not_json" -> Ok(None)
    [] line.k = "json"     -> Ok(line.v)

\* the error strings of MCPHealthResult
ErrUnknownServer(server_id) == [fmt |-> "Unknown server: {server_id}", arg |-> PyStr(<<server_id>>)]
ErrInitializeFailed(init_resp) == [fmt |-> "Initialize failed: {init_resp}", arg |-> init_resp]
ErrException(exc) == [fmt |-> "{exc}", arg |-> PyStr(<<exc>>)]

\* mutant: a response whose id is not the request's is rejected
InitRejected_checksId(init_resp) ==
  IF ~Truthy(init_resp) THEN Ok(TRUE)
  ELSE LET c == InResult(init_resp) IN
       IF c.raised THEN c
       ELSE Ok(~c.v \/ (init_resp.t = "dict" /\
                         DictGet(init_resp, "id", None).v # PyInt(1)))

\* mutant: only `not init_resp`, the `result` test forgotten
InitRejected_noResultTest(init_resp) ==
  Ok(~Truthy(init_resp))

\* `not init_resp or "result" not in init_resp`
InitRejected(init_resp) ==
  IF ~Truthy(init_resp) THEN Ok(TRUE)
  ELSE LET c == InResult(init_resp) IN
       IF c.raised THEN c ELSE Ok(~c.v)

\* mutant: description read from the "name" key
ToolOf_descFromName(t) ==
  LET name == DictGet(t, "name", EmptyStr)
      description == DictGet(t, "name", EmptyStr)
      input_schema == DictGet(t, "inputSchema", EmptyDict)
  IN  IF name.raised THEN name
      ELSE MCPToolSchema(name.v, description.v, input_schema.v)

\* the body of `for t in raw_tools: tools.append(MCPToolSchema(...))`
ToolOf(t) ==
  LET name == DictGet(t, "name", EmptyStr)
      description == DictGet(t, "description", EmptyStr)
      input_schema == DictGet(t, "inputSchema", EmptyDict)
  IN  IF name.raised THEN name
      ELSE MCPToolSchema(name.v, description.v, input_schema.v)

\* the loop: the first entry that raises ends it
MapTools(raw_tools) ==
  LET r == [i \in 1..Len(raw_tools) |-> ToolOf(raw_tools[i])]
      bad == {i \in 1..Len(raw_tools) : r[i].raised}
  IN  IF bad # {}
        THEN r[CHOOSE i \in bad : \A j \in bad : i <= j]
        ELSE Ok([i \in 1..Len(raw_tools) |-> r[i].v])

\* lines 130-138: the tools of a tools/list response
ToolsOf(tools_resp) ==
  IF ~Truthy(tools_resp) THEN Ok(<<>>)
  ELSE LET c == InResult(tools_resp) IN
       IF c.raised THEN c
       ELSE IF ~c.v THEN Ok(<<>>)
       ELSE LET res == ItemResult(tools_resp) IN
            IF res.raised THEN res
            ELSE LET raw_tools == DictGet(res.v, "tools", PyList(<<>>)) IN
                 IF raw_tools.raised THEN raw_tools
                 ELSE LET it == Iterate(raw_tools.v) IN
                      IF it.raised THEN it ELSE MapTools(it.v)

(***************************************************************************)
(* Side effects of a code segment, in program order.                       *)
(***************************************************************************)
Write(msg) == [op |-> "write", msg |-> msg]             \* proc.stdin.write
Kill == [op |-> "kill"]                                 \* _kill(proc)
Update(server_id, status, tools) ==                     \* update_server_health
  [op |-> "update", server_id |-> server_id, status |-> status, tools |-> tools]
Return(result) == [op |-> "return", result |-> result]  \* return result
Propagate(exc) == [op |-> "raise", exc |-> exc]         \* exception leaves the call
Await(at) == [op |-> "await", at |-> at]                \* suspend at an await
Bind(env_overrides) ==                                  \* env = {...}
  [op |-> "bind", env_overrides |-> env_overrides]

\* the exceptions the pipeline raises; all derive from Exception
SpawnErrors == {"FileNotFoundError"}
DrainErrors == {"ConnectionResetError"}
ExceptionClasses ==
  SpawnErrors \cup DrainErrors \cup
  {"ValueError", "UnicodeDecodeError", "TypeError", "KeyError",
   "AttributeError", "ValidationError"}

\* mutant: the handler returns without marking the registry entry
on_except_noUpdate(exc, server_id) ==
  IF exc \in ExceptionClasses
    THEN << Return(MCPHealthResult(server_id, UNHEALTHY, <<>>, ErrException(exc))) >>
    ELSE << Propagate(exc) >>

\* mutant: `except OSError`, which lets the other exceptions through
on_except_onlyOSError(exc, server_id) ==
  IF exc \in SpawnErrors \cup DrainErrors
    THEN << Update(server_id, UNHEALTHY, None),
            Return(MCPHealthResult(server_id, UNHEALTHY, <<>>, ErrException(exc))) >>
    ELSE << Propagate(exc) >>

\* mutant: the handler passes an empty tools list with UNHEALTHY
on_except_clearsTools(exc, server_id) ==
  IF exc \in ExceptionClasses
    THEN << Update(server_id, UNHEALTHY, PyList(<<>>)),
            Return(MCPHealthResult(server_id, UNHEALTHY, <<>>, ErrException(exc))) >>
    ELSE << Propagate(exc) >>

\* `except Exception as exc:` (lines 153-161)
on_except(exc, server_id) ==
  IF exc \in ExceptionClasses
    THEN << Update(server_id, UNHEALTHY, None),
            Return(MCPHealthResult(server_id, UNHEALTHY, <<>>, ErrException(exc))) >>
    ELSE << Propagate(exc) >>

\* mutant: no lookup of the server before the spawn
check_start_noLookup(servers, server_id, env_overrides) ==
  << Bind(env_overrides), Await("spawn") >>

\* lines 77-91: look the server up, build the environment, then await
\* create_subprocess_exec
check_start(servers, server_id, env_overrides) ==
  IF get_server(servers, server_id) = None
    THEN << Return(MCPHealthResult(server_id, UNHEALTHY, <<>>,
                                   ErrUnknownServer(server_id))) >>
    ELSE << Bind(env_overrides), Await("spawn") >>

\* mutant: a failed spawn is reported as a failed initialize
after_spawn_initFailure(spawned, server_id) ==
  IF spawned.raised
    THEN << Update(server_id, UNHEALTHY, None),
            Return(MCPHealthResult(server_id, UNHEALTHY, <<>>,
                                   ErrInitializeFailed(None))) >>
    ELSE << Write(_JSONRPC_INIT), Await("drain_init") >>

\* mutant: the entry is marked CHECKING once the process is spawned
after_spawn_marksChecking(spawned, server_id) ==
  IF spawned.raised
    THEN on_except(spawned.exc, server_id)
    ELSE << Update(server_id, CHECKING, None),
            Write(_JSONRPC_INIT), Await("drain_init") >>

\* lines 91-102: create_subprocess_exec returned or raised; write initialize
after_spawn(spawned, server_id) ==
  IF spawned.raised
    THEN on_except(spawned.exc, server_id)
    ELSE << Write(_JSONRPC_INIT), Await("drain_init") >>

\* line 102-104: drain returned or raised; await the initialize response
after_drain_init(drained, server_id) ==
  IF drained.raised
    THEN on_except(drained.exc, server_id)
    ELSE << Await("read_init") >>

\* lines 104-123: the initialize response
after_read_init(line, server_id) ==
  LET init_resp == _read_response(line) IN
  IF init_resp.raised THEN on_except(init_resp.exc, server_id)
  ELSE LET rejected == InitRejected(init_resp.v) IN
       IF rejected.raised THEN on_except(rejected.exc, server_id)
       ELSE IF rejected.v
         THEN << Kill,
                 Update(server_id, UNHEALTHY, None),
                 Return(MCPHealthResult(server_id, UNHEALTHY, <<>>,
                                        ErrInitializeFailed(init_resp.v))) >>
         ELSE << Write(_JSONRPC_INITIALIZED), Await("drain_notif") >>

\* lines 123-127: drain after the notification; write tools/list
after_drain_notif(drained, server_id) ==
  IF drained.raised
    THEN on_except(drained.exc, server_id)
    ELSE << Write(_JSONRPC_LIST_TOOLS), Await("drain_list") >>

\* lines 127-129: drain after tools/list; await its response
after_drain_list(drained, server_id) ==
  IF drained.raised
    THEN on_except(drained.exc, server_id)
    ELSE << Await("read_tools") >>

\* mutant: the HEALTHY write does not pass the tools
after_read_tools_omitsTools(line, server_id) ==
  LET tools_resp == _read_response(line) IN
  IF tools_resp.raised THEN on_except(tools_resp.exc, server_id)
  ELSE LET tools == ToolsOf(tools_resp.v) IN
       IF tools.raised THEN on_except(tools.exc, server_id)
       ELSE << Kill,
               Update(server_id, HEALTHY, None),
               Return(MCPHealthResult(server_id, HEALTHY, tools.v, None)) >>

\* lines 129-151: the tools/list response
after_read_tools(line, server_id) ==
  LET tools_resp == _read_response(line) IN
  IF tools_resp.raised THEN on_except(tools_resp.exc, server_id)
  ELSE LET tools == ToolsOf(tools_resp.v) IN
       IF tools.raised THEN on_except(tools.exc, server_id)
       ELSE << Kill,
               Update(server_id, HEALTHY, PyList(tools.v)),
               Return(MCPHealthResult(server_id, HEALTHY, tools.v, None)) >>

\* proc.kill(), line 167: it ends a process that is still running.  On one
\* that has ended (it exited by itself, `exited`, or was killed before) it
\* signals nothing, and raises ProcessLookupError when the event loop has
\* already collected the exit (`reaped`) and returns quietly when not.
proc_kill(proc, exited, reaped) ==
  IF proc = "running" /\ ~exited
    THEN [raised |-> FALSE, proc |-> "killed"]
    ELSE [raised |-> reaped, exc |-> "ProcessLookupError",
          proc |-> IF proc = "running" THEN "exited" ELSE proc]

\* mutant: no try/except around proc.kill()
kill_proc_noExcept(proc, exited, reaped) ==
  proc_kill(proc, exited, reaped)

\* _kill(proc), lines 164-169, on one process: ProcessLookupError is
\* swallowed
kill_proc(proc, exited, reaped) ==
  LET r == proc_kill(proc, exited, reaped) IN
  IF r.raised /\ r.exc = "ProcessLookupError"
    THEN [raised |-> FALSE, proc |-> r.proc]
    ELSE r

\* _kill(proc) by task t on its own process.  `exited` tells whether the
\* process has exited by now.
_kill(procs, t, exited) ==
  [procs EXCEPT ![t].proc = kill_proc(@, exited, TRUE).proc]

(***************************************************************************)
(* Inputs: the lines a stub server answers with.                           *)
(***************************************************************************)
ToolEmpty == EmptyDict                               \* every field missing
ToolPing == PyDict([name |-> PingStr])
ToolFull ==
  PyDict([name |-> PingStr, description |-> ResultStr,
          inputSchema |-> PyDict([type |-> PingStr])])
ToolNotDict == PyInt(7)                              \* an entry that is no object
ToolNullName == PyDict([name |-> None])              \* name: null

\* the `tools` arrays of the tools/list results
RawToolLists ==
  { <<>>, <<ToolEmpty>>, <<ToolPing>>, <<ToolFull, ToolEmpty>>,
    <<ToolNotDict>>, <<ToolPing, ToolNullName>> }

\* initialize responses: a number, objects without and with `result`, and
\* an array and a string that hold "result"
InitValues ==
  { PyInt(5), EmptyDict, PyDict([error |-> PyInt(1)]),
    PyList(<<ResultStr>>), ResultStr, PyDict([result |-> EmptyDict]) }

\* tools/list responses
ToolsValues ==
  { PyDict([error |-> PyInt(1)]), PyList(<<ResultStr>>),
    PyDict([result |-> None]), PyDict([result |-> EmptyDict]),
    PyDict([result |-> PyDict([tools |-> None])]) }
  \cup { PyDict([result |-> PyDict([tools |-> PyList(raw)])]) : raw \in RawToolLists }

InitLines ==
  {Timeout, Eof, Overrun, BadUtf8, NotJson} \cup {JsonLine(v) : v \in InitValues}
ToolsLines ==
  {Timeout, Eof, Overrun, BadUtf8, NotJson} \cup {JsonLine(v) : v \in ToolsValues}

(***************************************************************************)
(* State.                                                                  *)
(*   servers    _SERVERS, the registry                                     *)
(*   task       per asyncio task: where it is suspended (pc), its          *)
(*              server_id argument, its subprocess (proc), the lines       *)
(*              written to the subprocess (stdin), what the call returned  *)
(*              (result) or raised (exc); and, recorded for the            *)
(*              properties: the _kill and update_server_health calls made  *)
(*              (kills, writes), the lines read (init_in, tools_in) and    *)
(*              the exception a spawn or drain raised (io_exc);            *)
(*              its env_overrides argument, the caller's mapping (and, for *)
(*              the properties, its value when the call was made, given),  *)
(*              its local `env` and the environment its subprocess was     *)
(*              given (proc_env); and,                                     *)
(*              when the call came through the HTTP route, the route's     *)
(*              project_id and its get_decrypted_env calls (http)          *)
(*   lastWrite  per server id, the status argument of the most recent      *)
(*              update_server_health call, UNKNOWN before the first        *)
(*              (recorded for the properties)                              *)
(* A task that has returned (pc = "done") keeps its return value, its      *)
(* process handle and its records for one state: the next step hands the   *)
(* result to the caller (Collect) and the task is idle again.  Nothing a   *)
(* returned call left behind is read by the code of another task.          *)
(*   prev       what a caller that issues its checks one after another     *)
(*              keeps of the check before (SeqSpec)                        *)
(*   call       the most recent direct registry call and the registry      *)
(*              before it (RegSpec)                                        *)
(*   store      a SessionStore, the WizardSession objects and the clock    *)
(*              (StoreSpec)                                                *)
(*   environ    os.environ, the ambient environment of the backend process *)
(*   pick       an ExtractedRequirements, what pick_framework returned for *)
(*              it and what build_recommendation returned or raised        *)
(*              (PickSpec)                                                 *)
(***************************************************************************)
VARIABLES servers, task, lastWrite, prev, call, store, pick, environ
vars == <<servers, task, lastWrite, prev, call, store, pick, environ>>

NoLine == [k |-> "none"]

NewTask(server_id, env_overrides) ==
  [pc |-> "idle", server_id |-> server_id, proc |-> "none", stdin |-> <<>>,
   result |-> None, exc |-> None, kills |-> 0, writes |-> 0,
   init_in |-> NoLine, tools_in |-> NoLine, io_exc |-> None,
   env_overrides |-> env_overrides, env |-> None, proc_env |-> None,
   http |-> None, given |-> env_overrides]

IdleTask == NewTask("", None)

InFlight(tk) == tk.pc \notin {"idle", "done"}

NoPrev == [k |-> "none"]
NoCall == [op |-> "none"]
NoStore == [k |-> "none"]
NoPick == [k |-> "none"]

\* the registry as the module's _reg calls leave it, no check under way
Init ==
  /\ servers = [id \in ServerIds |-> MCPServerEntry(id)]
  /\ task = [t \in Tasks |-> IdleTask]
  /\ lastWrite = [id \in ServerIds |-> UNKNOWN]
  /\ prev = NoPrev
  /\ call = NoCall
  /\ store = NoStore
  /\ pick = NoPick
  /\ environ = os_environ

\* one side effect of task t, applied to the world w; env holds what the
\* environment decides during the step: the clock reading (now) and whether
\* the subprocess has exited on its own (exited)
Do(w, e, t, env) ==
  CASE e.op = "write" ->
         [w EXCEPT !.task[t].stdin = Append(@, e.msg)]
    [] e.op = "kill" ->
         [w EXCEPT !.task = [_kill(w.task, t, env.exited) EXCEPT ![t].kills = @ + 1]]
    [] e.op = "update" ->
         [w EXCEPT
            !.servers = update_server_health(w.servers, e.server_id, e.status,
                                             e.tools, env.now),
            !.lastWrite = [id \in DOMAIN @ |->
                             IF id = e.server_id THEN e.status ELSE @[id]],
            !.task[t].writes = @ + 1]
    [] e.op = "return" ->
         [w EXCEPT !.task[t].result = e.result, !.task[t].pc = "done"]
    [] e.op = "raise" ->
         [w EXCEPT !.task[t].exc = PyStr(<<e.exc>>), !.task[t].pc = "done"]
    [] e.op = "await" ->
         [w EXCEPT !.task[t].pc = e.at]
    [] e.op = "bind" ->
         LET b == build_env(w.environ, e.env_overrides) IN
         [w EXCEPT !.task[t].env = b.env,
                   !.task[t].env_overrides = b.env_overrides,
                   !.environ = b.environ]
    [] e.op = "consult" ->
         [w EXCEPT !.task[t].http.consulted =
                      Append(@, <<e.project_id, e.server_id>>)]
    [] e.op = "invoke" ->
         [w EXCEPT !.task[t].server_id = e.server_id,
                   !.task[t].env_overrides = e.env_overrides,
                   !.task[t].given = e.env_overrides,
                   !.task[t].http.invoked =
                      Append(@, <<e.server_id, e.env_overrides>>)]

RECURSIVE Run(_, _, _, _)
Run(w, effects, t, env) ==
  IF effects = <<>> THEN w
  ELSE Run(Do(w, Head(effects), t, env), Tail(effects), t, env)

\* the environment's choices that `effects` can depend on
Envs(effects) ==
  [now : IF \E i \in 1..Len(effects) : effects[i].op = "update"
           THEN Times ELSE {1},
   exited : IF \E i \in 1..Len(effects) : effects[i].op = "kill"
              THEN BOOLEAN ELSE {FALSE}]

World ==
  [servers |-> servers, task |-> task, lastWrite |-> lastWrite,
   environ |-> environ]

Becomes(w) ==
  /\ servers' = w.servers
  /\ task' = w.task
  /\ lastWrite' = w.lastWrite
  /\ environ' = w.environ
  /\ UNCHANGED <<prev, call, store, pick>>

\* task t runs the segment whose side effects are `effects`, from world w
Step(w, effects, t) ==
  /\ \A u \in Tasks : task[u].pc # "done"
  /\ \E env \in Envs(effects) : Becomes(Run(w, effects, t, env))

(***************************************************************************)
(* Actions: one per code segment between two awaits.                       *)
(***************************************************************************)
\* a caller invokes check_server_health(id, env_overrides) on task t
Call(t, id, env_overrides) ==
  /\ task[t].pc = "idle"
  /\ Step([World EXCEPT !.task[t] = NewTask(id, env_overrides)],
          check_start(servers, id, env_overrides), t)

\* create_subprocess_exec(..., env=env) returns a process
Spawned(t) ==
  /\ task[t].pc = "spawn"
  /\ Step([World EXCEPT !.task[t].proc = "running",
                        !.task[t].proc_env = task[t].env],
          after_spawn(Ok(None), task[t].server_id), t)

\* create_subprocess_exec raises
SpawnFailed(t, e) ==
  /\ task[t].pc = "spawn"
  /\ Step([World EXCEPT !.task[t].io_exc = PyStr(<<e>>)],
          after_spawn(Raise(e), task[t].server_id), t)

\* the code after the `await proc.stdin.drain()` the task is suspended at
after_drain(pc, drained, server_id) ==
  CASE pc = "drain_init"  -> after_drain_init(drained, server_id)
    [] pc = "drain_notif" -> after_drain_notif(drained, server_id)
    [] pc = "drain_list"  -> after_drain_list(drained, server_id)

\* `await proc.stdin.drain()` returns
Drained(t) ==
  /\ task[t].pc \in {"drain_init", "drain_notif", "drain_list"}
  /\ Step(World, after_drain(task[t].pc, Ok(None), task[t].server_id), t)

\* `await proc.stdin.drain()` raises
DrainFailed(t, e) ==
  /\ task[t].pc \in {"drain_init", "drain_notif", "drain_list"}
  /\ Step([World EXCEPT !.task[t].io_exc = PyStr(<<e>>)],
          after_drain(task[t].pc, Raise(e), task[t].server_id), t)

\* the read of the initialize response completes with `line`
ReadInit(t, line) ==
  /\ task[t].pc = "read_init"
  /\ Step([World EXCEPT !.task[t].init_in = line],
          after_read_init(line, task[t].server_id), t)

\* the read of the tools/list response completes with `line`
ReadTools(t, line) ==
  /\ task[t].pc = "read_tools"
  /\ Step([World EXCEPT !.task[t].tools_in = line],
          after_read_tools(line, task[t].server_id), t)

\* the caller of task t receives what the call returned
Collect(t) ==
  /\ task[t].pc = "done"
  /\ task' = [task EXCEPT ![t] = IdleTask]
  /\ UNCHANGED <<servers, lastWrite, prev, call, store, pick, environ>>

\* get_server(server_id) is called: it returns the entry or None and
\* assigns nothing
GetServer(server_id) ==
  /\ get_server(servers, server_id) \in {None} \cup {servers[id] : id \in DOMAIN servers}
  /\ UNCHANGED vars

\* list_servers(category, official_only) is called: it returns entries of
\* the registry and assigns nothing
ListServers(category, official_only) ==
  /\ \A i \in DOMAIN list_servers(servers, category, official_only) :
       list_servers(servers, category, official_only)[i]
         \in {servers[id] : id \in DOMAIN servers}
  /\ UNCHANGED vars

Next ==
  \/ \E t \in Tasks, id \in AllIds : Call(t, id, None)
  \/ \E t \in Tasks : Spawned(t)
  \/ \E t \in Tasks, e \in SpawnErrors : SpawnFailed(t, e)
  \/ \E t \in Tasks : Drained(t)
  \/ \E t \in Tasks, e \in DrainErrors : DrainFailed(t, e)
  \/ \E t \in Tasks, line \in InitLines : ReadInit(t, line)
  \/ \E t \in Tasks, line \in ToolsLines : ReadTools(t, line)
  \/ \E t \in Tasks : Collect(t)
  \/ \E id \in AllIds : GetServer(id)
  \/ ListServers(None, FALSE)

Spec == Init /\ [][Next]_vars

(***************************************************************************)
(* SeqSpec: one caller that issues its checks one after another and keeps  *)
(* the outcome of the check before.  The stub server also answers with     *)
(* responses that carry an `id` member.                                    *)
(***************************************************************************)
Caller == 1

\* initialize and tools/list responses with a matching id, another id, and
\* (in InitValues, ToolsValues and here) no id
IdInitValues ==
  { PyDict([result |-> EmptyDict, id |-> PyInt(1)]),
    PyDict([result |-> EmptyDict, id |-> PyInt(9)]),
    PyDict([error |-> PyInt(1), id |-> PyInt(1)]),
    PyDict([id |-> PyInt(9)]) }
IdToolsValues ==
  { PyDict([result |-> PyDict([tools |-> PyList(<<ToolPing>>)]), id |-> PyInt(2)]),
    PyDict([result |-> PyDict([tools |-> PyList(<<ToolPing>>)]), id |-> PyInt(9)]),
    PyDict([id |-> PyInt(2)]), EmptyDict }

\* how many messages task t had written when its spawn or drain raised
\* (0 when none did)
FailedAt(t) == IF task[t].io_exc # None THEN Len(task[t].stdin) ELSE 0

\* what the caller keeps of the check task t has returned from: what the
\* process did (the lines it answered with, the I/O failure and how many
\* messages had been written by then), the result, and the registry entry
\* after the check
Summary(t) ==
  [server_id |-> task[t].server_id,
   init_in |-> task[t].init_in, tools_in |-> task[t].tools_in,
   io_exc |-> task[t].io_exc, failed_at |-> FailedAt(t),
   status |-> task[t].result.status, tools |-> task[t].result.tools,
   entry |-> IF task[t].server_id \in DOMAIN servers
               THEN [status |-> servers[task[t].server_id].status,
                     tools |-> servers[task[t].server_id].tools]
               ELSE [status |-> UNKNOWN, tools |-> <<>>]]

\* the caller receives what the call returned and keeps it
Remember(t) ==
  /\ task[t].pc = "done"
  /\ prev' = Summary(t)
  /\ task' = [task EXCEPT ![t] = IdleTask]
  /\ UNCHANGED <<servers, lastWrite, call, store, pick, environ>>

SeqNext ==
  \/ \E id \in AllIds : Call(Caller, id, None)
  \/ Spawned(Caller)
  \/ \E e \in SpawnErrors : SpawnFailed(Caller, e)
  \/ Drained(Caller)
  \/ \E e \in DrainErrors : DrainFailed(Caller, e)
  \/ \E line \in InitLines \cup {JsonLine(v) : v \in IdInitValues} :
       ReadInit(Caller, line)
  \/ \E line \in ToolsLines \cup {JsonLine(v) : v \in IdToolsValues} :
       ReadTools(Caller, line)
  \/ Remember(Caller)

SeqSpec == Init /\ [][SeqNext]_vars

(***************************************************************************)
(* api/mcp.py: POST /mcp/servers/{server_id}/healthcheck                   *)
(***************************************************************************)
\* credential_store.get_decrypted_env(project_id, server_id): the stored
\* credentials of the project for the server as a mapping, empty when the
\* project has none
get_decrypted_env(project_id, server_id) ==
  IF project_id = PyStr(<<"p1">>) /\ server_id = "postgres"
    THEN PyDict([X |-> "1", TOKEN |-> "s3cret"])
    ELSE EmptyDict

\* the route's steps: a get_decrypted_env call, and the call of
\* check_server_health it awaits
Consult(project_id, server_id) ==
  [op |-> "consult", project_id |-> project_id, server_id |-> server_id]
Invoke(server_id, env_overrides) ==
  [op |-> "invoke", server_id |-> server_id, env_overrides |-> env_overrides]

\* mutant: the credential store is consulted whatever project_id is
run_health_check_alwaysConsults(servers_, server_id, project_id) ==
  IF get_server(servers_, server_id) = None
    THEN << Propagate("HTTPException(404)") >>
    ELSE << Consult(project_id, server_id),
            Invoke(server_id, get_decrypted_env(project_id, server_id)) >>

\* run_health_check(server_id, project_id), lines 102-110
run_health_check(servers_, server_id, project_id) ==
  IF get_server(servers_, server_id) = None
    THEN << Propagate("HTTPException(404)") >>
    ELSE IF Truthy(project_id)
      THEN << Consult(project_id, server_id),
              Invoke(server_id, get_decrypted_env(project_id, server_id)) >>
      ELSE << Invoke(server_id, None) >>

\* the route's effects followed by those of the check_server_health call
\* it makes, up to that call's first await
route_start(servers_, server_id, project_id) ==
  LET route == run_health_check(servers_, server_id, project_id)
      last == route[Len(route)]
  IN  IF last.op = "invoke"
        THEN route \o check_start(servers_, last.server_id, last.env_overrides)
        ELSE route

NewRequest(server_id, project_id) ==
  [NewTask(server_id, None) EXCEPT
     !.http = [project_id |-> project_id, consulted |-> <<>>, invoked |-> <<>>]]

\* a client posts the health-check request; the handler runs on task t
Route(t, id, project_id) ==
  /\ task[t].pc = "idle"
  /\ Step([World EXCEPT !.task[t] = NewRequest(id, project_id)],
          route_start(servers, id, project_id), t)

(***************************************************************************)
(* EnvSpec: one caller that calls check_server_health with env_overrides   *)
(* or posts health-check requests with and without a project id.           *)
(***************************************************************************)
EnvOverrides ==
  { None, EmptyDict, PyDict([X |-> "1"]), PyDict([TOKEN |-> "s3cret"]),
    PyDict([X |-> "1", TOKEN |-> "s3cret"]) }

ProjectIds == { None, EmptyStr, PyStr(<<"p1">>), PyStr(<<"p2">>) }

\* the caller receives what the call returned or raised and keeps which
\* overrides it had passed and which environment the process was given
KeepEnv(t) ==
  /\ task[t].pc = "done"
  /\ prev' = [k |-> "env", given |-> task[t].given,
              spawned |-> task[t].proc # "none",
              proc_env |-> task[t].proc_env]
  /\ task' = [task EXCEPT ![t] = IdleTask]
  /\ UNCHANGED <<servers, lastWrite, call, store, pick, environ>>

EnvNext ==
  \/ \E id \in AllIds, env_overrides \in EnvOverrides :
       Call(Caller, id, env_overrides)
  \/ \E id \in AllIds, project_id \in ProjectIds : Route(Caller, id, project_id)
  \/ Spawned(Caller)
  \/ \E e \in SpawnErrors : SpawnFailed(Caller, e)
  \/ Drained(Caller)
  \/ \E e \in DrainErrors : DrainFailed(Caller, e)
  \/ \E line \in InitLines : ReadInit(Caller, line)
  \/ \E line \in ToolsLines : ReadTools(Caller, line)
  \/ KeepEnv(Caller)

EnvSpec == Init /\ [][EnvNext]_vars

(***************************************************************************)
(* RegSpec: the registry's functions called directly, with any arguments.  *)
(***************************************************************************)
\* the `tools` arguments: omitted (None), an empty list, lists of schemas
ToolsArgs ==
  { None, PyList(<<>>),
    PyList(<< [name |-> PingStr, description |-> EmptyStr,
               input_schema |-> EmptyDict] >>),
    PyList(<< [name |-> ResultStr, description |-> PingStr,
               input_schema |-> EmptyDict],
              [name |-> PingStr, description |-> EmptyStr,
               input_schema |-> EmptyDict] >>) }

\* update_server_health(server_id, status, tools) is called
UpdateServerHealth(server_id, status, tools, now) ==
  /\ servers' = update_server_health(servers, server_id, status, tools, now)
  /\ call' = [op |-> "update_server_health", server_id |-> server_id,
              status |-> status, tools |-> tools, now |-> now]
  /\ UNCHANGED <<task, lastWrite, prev, store, pick, environ>>

RegNext ==
  \/ \E id \in ServerIds \cup UnknownIds, status \in MCPServerStatus,
        tools \in ToolsArgs, now \in Times :
       UpdateServerHealth(id, status, tools, now)
  \/ \E id \in ServerIds \cup UnknownIds : GetServer(id)
  \/ \E category \in {None, PyStr(<<"data">>), PyStr(<<"communication">>)},
        official_only \in BOOLEAN :
       ListServers(category, official_only)

RegSpec == Init /\ [][RegNext]_vars

(***************************************************************************)
(* KillSpec: _kill called directly, any number of times, on processes that *)
(* are running, have exited by themselves or were killed before.  `call`   *)
(* holds the processes (their state and the _kill calls made on each) and  *)
(* the most recent _kill call with the process state before and after it.  *)
(***************************************************************************)
NoKill == [p |-> 0]

KillInit ==
  /\ servers = [id \in ServerIds |-> MCPServerEntry(id)]
  /\ task = [t \in Tasks |-> IdleTask]
  /\ lastWrite = [id \in ServerIds |-> UNKNOWN]
  /\ prev = NoPrev
  /\ call = [op |-> "procs",
             procs |-> [p \in Tasks |-> [proc |-> "none", kills |-> 0]],
             last |-> NoKill]
  /\ store = NoStore
  /\ pick = NoPick
  /\ environ = os_environ

\* create_subprocess_exec returns process p
StartProcess(p) ==
  /\ call.procs[p].proc = "none"
  /\ call' = [call EXCEPT !.procs[p].proc = "running"]
  /\ UNCHANGED <<servers, task, lastWrite, prev, store, pick, environ>>

\* process p exits by itself
ProcessExits(p) ==
  /\ call.procs[p].proc = "running"
  /\ call' = [call EXCEPT !.procs[p].proc = "exited"]
  /\ UNCHANGED <<servers, task, lastWrite, prev, store, pick, environ>>

\* _kill(p) is called
KillProcess(p, exited, reaped) ==
  /\ call.procs[p].proc # "none"
  /\ call.procs[p].kills < MaxKills
  /\ LET r == kill_proc(call.procs[p].proc, exited, reaped) IN
     call' = [call EXCEPT
                !.procs[p] = [proc |-> r.proc, kills |-> @.kills + 1],
                !.last = [p |-> p, before |-> call.procs[p].proc,
                          exited |-> exited, after |-> r.proc,
                          raised |-> r.raised]]
  /\ UNCHANGED <<servers, task, lastWrite, prev, store, pick, environ>>

KillNext ==
  \/ \E p \in Tasks : StartProcess(p)
  \/ \E p \in Tasks : ProcessExits(p)
  \/ \E p \in Tasks, exited \in BOOLEAN, reaped \in BOOLEAN :
       KillProcess(p, exited, reaped)

KillSpec == KillInit /\ [][KillNext]_vars

(***************************************************************************)
(* services/session_store.py: SessionStore.                                *)
(* A WizardSession is an object on the heap, `objects`; a reference to it  *)
(* is its index there.  self._sessions is a Python dict: its items in      *)
(* insertion order, each a pair <<session_id, reference>>.                 *)
(***************************************************************************)
SessionIds == {"s1", "s2", "s3"}
NoRef == 0                                   \* Python's None, as a reference

\* dict operations
DictKeys(d) == {d[i][1] : i \in 1..Len(d)}
\* d.get(k)
DictLookup(d, k) ==
  IF k \in DictKeys(d)
    THEN d[CHOOSE i \in 1..Len(d) : d[i][1] = k][2]
    ELSE NoRef
\* d[k] = v
DictAssign(d, k, v) ==
  IF k \in DictKeys(d)
    THEN [i \in 1..Len(d) |-> IF d[i][1] = k THEN <<k, v>> ELSE d[i]]
    ELSE Append(d, <<k, v>>)
\* d.pop(k, None): the dict after it, and what it returns
DictPop(d, k) ==
  [d |-> SelectSeq(d, LAMBDA kv : kv[1] # k), ret |-> DictLookup(d, k)]
\* list(d.values())
DictValues(d) == [i \in 1..Len(d) |-> d[i][2]]

\* WizardSession(): a session_id and the time of construction
WizardSession(session_id, now) ==
  [session_id |-> session_id, updated_at |-> now]

\* SessionStore(): __init__
SessionStore ==
  [sessions |-> <<>>, objects |-> <<>>, clock |-> 0]

\* create(): `session_id` is the id the new WizardSession gives itself
SessionStore_create(st, session_id) ==
  LET session == Len(st.objects) + 1 IN
  [st |-> [st EXCEPT !.objects = Append(@, WizardSession(session_id, st.clock)),
                     !.sessions = DictAssign(@, session_id, session)],
   ret |-> session]

\* get(session_id)
SessionStore_get(st, session_id) == DictLookup(st.sessions, session_id)

\* mutant: a session already stored under the id is kept (setdefault)
SessionStore_save_keepsFirst(st, session) ==
  [st EXCEPT !.objects[session].updated_at = st.clock,
             !.sessions = IF st.objects[session].session_id \in DictKeys(@)
                            THEN @
                            ELSE DictAssign(@, st.objects[session].session_id, session)]

\* save(session)
SessionStore_save(st, session) ==
  [st EXCEPT !.objects[session].updated_at = st.clock,
             !.sessions = DictAssign(@, st.objects[session].session_id, session)]

\* list_sessions()
SessionStore_list_sessions(st) == DictValues(st.sessions)

\* mutant: delete answers True whatever was stored
SessionStore_delete_alwaysTrue(st, session_id) ==
  [st |-> [st EXCEPT !.sessions = DictPop(@, session_id).d],
   ret |-> TRUE]

\* delete(session_id)
SessionStore_delete(st, session_id) ==
  [st |-> [st EXCEPT !.sessions = DictPop(@, session_id).d],
   ret |-> DictPop(st.sessions, session_id).ret # NoRef]

(***************************************************************************)
(* StoreSpec: a fresh SessionStore and a caller that creates, constructs,  *)
(* saves, gets, lists and deletes sessions.  `store` holds the store, the  *)
(* heap and the clock, the most recent call with what it returned (last),  *)
(* and per session id the session last created or saved under it and not   *)
(* deleted since (live, NoRef when there is none), recorded for the        *)
(* properties.  datetime.utcnow() reads a clock that does not go back.     *)
(***************************************************************************)
StoreInit ==
  /\ servers = [id \in ServerIds |-> MCPServerEntry(id)]
  /\ task = [t \in Tasks |-> IdleTask]
  /\ lastWrite = [id \in ServerIds |-> UNKNOWN]
  /\ prev = NoPrev
  /\ call = NoCall
  /\ pick = NoPick
  /\ environ = os_environ
  /\ store = [st |-> SessionStore, last |-> [op |-> "init"],
              live |-> [id \in SessionIds |-> NoRef]]

StoreStep(st, last, live) ==
  /\ store' = [st |-> st, last |-> last, live |-> live]
  /\ UNCHANGED <<servers, task, lastWrite, prev, call, pick, environ>>

\* the ids no WizardSession has yet
FreshIds == SessionIds \ {store.st.objects[i].session_id : i \in 1..Len(store.st.objects)}

\* store.create()
Create ==
  /\ Len(store.st.objects) < MaxObjects
  /\ \E id \in FreshIds :
       LET r == SessionStore_create(store.st, id) IN
       StoreStep(r.st, [op |-> "create", ret |-> r.ret],
                 [store.live EXCEPT ![id] = r.ret])

\* the caller constructs WizardSession(session_id=id) and does not store it
Construct(id) ==
  /\ Len(store.st.objects) < MaxObjects
  /\ StoreStep([store.st EXCEPT !.objects = Append(@, WizardSession(id, store.st.clock))],
               [op |-> "construct", ret |-> Len(store.st.objects) + 1],
               store.live)

\* store.save(session)
Save(session) ==
  /\ session \in 1..Len(store.st.objects)
  /\ StoreStep(SessionStore_save(store.st, session),
               [op |-> "save", arg |-> session],
               [store.live EXCEPT ![store.st.objects[session].session_id] = session])

\* store.get(id)
Get(id) ==
  StoreStep(store.st, [op |-> "get", arg |-> id,
                       ret |-> SessionStore_get(store.st, id)],
            store.live)

\* store.list_sessions()
ListSessions ==
  StoreStep(store.st, [op |-> "list_sessions",
                       ret |-> SessionStore_list_sessions(store.st)],
            store.live)

\* store.delete(id)
Delete(id) ==
  LET r == SessionStore_delete(store.st, id) IN
  StoreStep(r.st, [op |-> "delete", arg |-> id, ret |-> r.ret],
            [store.live EXCEPT ![id] = NoRef])

\* time passes
Tick ==
  /\ store.st.clock < MaxClock
  /\ StoreStep([store.st EXCEPT !.clock = @ + 1], [op |-> "tick"], store.live)

StoreNext ==
  \/ Create
  \/ \E id \in SessionIds : Construct(id)
  \/ \E session \in 1..MaxObjects : Save(session)
  \/ \E id \in SessionIds : Get(id)
  \/ ListSessions
  \/ \E id \in SessionIds : Delete(id)
  \/ Tick

StoreSpec == StoreInit /\ [][StoreNext]_vars

(***************************************************************************)
(* services/recommender.py: pick_framework.  A str is the sequence of its  *)
(* characters.                                                             *)
(***************************************************************************)
\* models/conversation.py, FrameworkChoice: its seven members
CREWAI == "CREWAI"
LANGGRAPH == "LANGGRAPH"
AUTOGEN == "AUTOGEN"
SEMANTIC_KERNEL == "SEMANTIC_KERNEL"
VERCEL_AI == "VERCEL_AI"
RIG == "RIG"
ADK_GO == "ADK_GO"
FrameworkChoice ==
  {CREWAI, LANGGRAPH, AUTOGEN, SEMANTIC_KERNEL, VERCEL_AI, RIG, ADK_GO}

\* framework_preference = None
NoPreference == "None"

\* models/conversation.py, DeploymentTarget
\* (LOCAL is a reserved word of TLA+: the members are spelt Target_*)
Target_LOCAL == "LOCAL"
Target_CLOUD == "CLOUD"
Target_EXPORT == "EXPORT"
DeploymentTarget == {Target_LOCAL, Target_CLOUD, Target_EXPORT}

\* ExtractedRequirements(use_case=.., framework_preference=..,
\* deployment_preference=.., scale=.., integrations=..): the first four
\* default to None, integrations to []
ExtractedRequirements(use_case, framework_preference, deployment_preference, scale, integrations) ==
  [use_case |-> use_case, framework_preference |-> framework_preference,
   deployment_preference |-> deployment_preference, scale |-> scale,
   integrations |-> integrations]

\* Recommendation(framework=.., ..); the summary text is kept as the values
\* it is formatted from
Recommendation(framework, framework_reason, agents, mcp_servers, deployment, estimated_monthly_cost) ==
  [framework |-> framework, framework_reason |-> framework_reason,
   agents |-> agents, mcp_servers |-> mcp_servers, deployment |-> deployment,
   estimated_monthly_cost |-> estimated_monthly_cost,
   summary |-> <<framework, Len(agents), Len(mcp_servers), deployment>>]

\* _KEYWORD_TO_SERVER_ID: the keys of the servers the registry above holds
_KEYWORD_TO_SERVER_ID ==
  << << <<"s", "l", "a", "c", "k">>, "slack" >>,
     << <<"p", "o", "s", "t", "g", "r", "e", "s">>, "postgres" >>,
     << <<"p", "o", "s", "t", "g", "r", "e", "s", "q", "l">>, "postgres" >>,
     << <<"s", "q", "l">>, "postgres" >> >>

\* _USECASE_FRAMEWORK, in the order the dict literal gives its items
_USECASE_FRAMEWORK ==
  << << <<"c", "u", "s", "t", "o", "m", "e", "r", "_", "s", "e", "r", "v", "i", "c", "e">>, CREWAI >>,
     << <<"c", "u", "s", "t", "o", "m", "e", "r", " ", "s", "e", "r", "v", "i", "c", "e">>, CREWAI >>,
     << <<"s", "u", "p", "p", "o", "r", "t">>, CREWAI >>,
     << <<"r", "e", "s", "e", "a", "r", "c", "h">>, LANGGRAPH >>,
     << <<"d", "a", "t", "a", "_", "a", "n", "a", "l", "y", "s", "i", "s">>, LANGGRAPH >>,
     << <<"d", "a", "t", "a", " ", "a", "n", "a", "l", "y", "s", "i", "s">>, LANGGRAPH >>,
     << <<"c", "o", "d", "e", "_", "g", "e", "n", "e", "r", "a", "t", "i", "o", "n">>, LANGGRAPH >>,
     << <<"c", "o", "d", "e", " ", "g", "e", "n", "e", "r", "a", "t", "i", "o", "n">>, LANGGRAPH >>,
     << <<"c", "o", "d", "i", "n", "g">>, LANGGRAPH >>,
     << <<"m", "u", "l", "t", "i", "_", "a", "g", "e", "n", "t">>, AUTOGEN >>,
     << <<"m", "u", "l", "t", "i", "-", "a", "g", "e", "n", "t">>, AUTOGEN >>,
     << <<"c", "o", "l", "l", "a", "b", "o", "r", "a", "t", "i", "o", "n">>, AUTOGEN >>,
     << <<"a", "u", "t", "o", "m", "a", "t", "i", "o", "n">>, LANGGRAPH >> >>

\* str.lower(), on the letters the inputs have in upper case
LowerChar(c) ==
  CASE c = "C" -> "c" [] c = "S" -> "s" [] c = "U" -> "u" [] c = "P" -> "p"
    [] c = "O" -> "o" [] c = "R" -> "r" [] c = "T" -> "t" [] OTHER -> c
Lower(str) == [i \in 1..Len(str) |-> LowerChar(str[i])]

\* str.strip()
IsSpace(c) == c \in {" ", "\t", "\n"}
Strip(str) ==
  LET solid == {i \in 1..Len(str) : ~IsSpace(str[i])} IN
  IF solid = {} THEN <<>>
  ELSE SubSeq(str, CHOOSE i \in solid : \A j \in solid : i <= j,
                   CHOOSE i \in solid : \A j \in solid : j <= i)

\* `keyword in uc` on two str
Contains(uc, keyword) ==
  \E i \in 1..(Len(uc) - Len(keyword) + 1) :
    SubSeq(uc, i, i + Len(keyword) - 1) = keyword

\* _FRAMEWORK_REASONS: the frameworks it has a key for, each with its text
_FRAMEWORK_REASONS ==
  [fw \in {CREWAI, LANGGRAPH, AUTOGEN, SEMANTIC_KERNEL} |-> <<"reason", fw>>]

\* _KEYWORD_TO_SERVER_ID.get(term): the server id, None when there is no key
KeywordServerId(term) ==
  LET hits == {i \in 1..Len(_KEYWORD_TO_SERVER_ID) :
                 _KEYWORD_TO_SERVER_ID[i][1] = term}
  IN  IF hits = {} THEN "None"
      ELSE _KEYWORD_TO_SERVER_ID[CHOOSE i \in hits : TRUE][2]

\* resolve_integrations(raw), lines 116-136: one item per server id found,
\* in the order of first mention
RECURSIVE resolve_from(_, _, _, _)
resolve_from(servers_, raw, seen, resolved) ==
  IF raw = <<>> THEN resolved
  ELSE LET server_id == KeywordServerId(Strip(Lower(Head(raw))))
           entry == get_server(servers_, server_id)
       IN  IF server_id # "None" /\ server_id \notin seen
             THEN resolve_from(servers_, Tail(raw), seen \cup {server_id},
                    IF entry # None
                      THEN Append(resolved,
                             [name |-> entry.id, command |-> entry.command,
                              category |-> entry.category,
                              tools_count |-> Len(entry.tools)])
                      ELSE resolved)
             ELSE resolve_from(servers_, Tail(raw), seen, resolved)

resolve_integrations(servers_, raw) == resolve_from(servers_, raw, {}, <<>>)

\* pick_framework(reqs), lines 139-148
pick_framework(reqs) ==
  IF reqs.framework_preference # NoPreference
    THEN reqs.framework_preference
    ELSE IF Truthy(reqs.use_case)
      THEN LET uc == Strip(Lower(reqs.use_case.s))
               hits == {i \in 1..Len(_USECASE_FRAMEWORK) :
                          Contains(uc, _USECASE_FRAMEWORK[i][1])}
           IN  IF hits # {}
                 THEN _USECASE_FRAMEWORK[CHOOSE i \in hits : \A j \in hits : i <= j][2]
                 ELSE LANGGRAPH
      ELSE LANGGRAPH

\* pick_deployment(reqs), lines 151-158
pick_deployment(reqs) ==
  IF reqs.deployment_preference # NoPreference
    THEN reqs.deployment_preference
    ELSE LET scale == IF Truthy(reqs.scale) THEN Lower(reqs.scale.s) ELSE <<>>
         IN  IF scale \in {<<"h", "i", "g", "h">>,
                           <<"e", "n", "t", "e", "r", "p", "r", "i", "s", "e">>}
               THEN Target_CLOUD
               ELSE Target_CLOUD

\* the default agent roles of a framework, lines 168-185
AgentRoles(framework) ==
  CASE framework = CREWAI -> <<"triage", "specialist", "escalation">>
    [] framework = AUTOGEN -> <<"coordinator", "worker_1", "critic">>
    [] OTHER -> <<"planner", "executor">>

\* build_recommendation(reqs), lines 161-198: the Recommendation, or the
\* KeyError of _FRAMEWORK_REASONS[framework]
build_recommendation(servers_, reqs) ==
  LET framework == pick_framework(reqs)
      deployment == pick_deployment(reqs)
      mcp_servers == resolve_integrations(servers_, reqs.integrations)
      agents == AgentRoles(framework)
  IN  IF framework \notin DOMAIN _FRAMEWORK_REASONS
        THEN Raise("KeyError")
        ELSE Ok(Recommendation(framework, _FRAMEWORK_REASONS[framework],
                               agents, mcp_servers, deployment,
                               IF deployment = Target_CLOUD THEN "$50-150/month"
                                                     ELSE "Free (local)"))

(***************************************************************************)
(* PickSpec: pick_framework and build_recommendation applied to the        *)
(* requirements in `pick`.                                                 *)
(***************************************************************************)
\* the use_case strings
UseCases ==
  { PyStr(<<>>),
    PyStr(<<"c", "u", "s", "t", "o", "m", "e", "r", " ", "s", "u", "p", "p", "o", "r", "t", " ", "t", "r", "i", "a", "g", "e">>),
    PyStr(<<"r", "e", "s", "e", "a", "r", "c", "h", " ", "p", "i", "p", "e", "l", "i", "n", "e">>),
    PyStr(<<"r", "u", "s", "t", " ", "a", "g", "e", "n", "t">>),
    PyStr(<<"g", "o", "l", "a", "n", "g", " ", "m", "i", "c", "r", "o", "s", "e", "r", "v", "i", "c", "e">>),
    PyStr(<<"s", "o", "m", "e", "t", "h", "i", "n", "g", " ", "g", "e", "n", "e", "r", "i", "c">>),
    PyStr(<<" ", "C", "u", "s", "t", "o", "m", "e", "r", " ", "S", "U", "P", "P", "O", "R", "T", " ">>),
    PyStr(<<"r", "e", "s", "e", "a", "r", "c", "h", " ", "s", "u", "p", "p", "o", "r", "t", " ", "d", "e", "s", "k">>),
    PyStr(<<"m", "u", "l", "t", "i", "-", "a", "g", "e", "n", "t", " ", "c", "h", "a", "t">>) }

\* the scale strings and the integrations lists
Scales == { None, PyStr(<<"h", "i", "g", "h">>), PyStr(<<"l", "o", "w">>) }

Integrations ==
  { <<>>,
    << <<"s", "l", "a", "c", "k">> >>,
    << <<" ", "S", "l", "a", "c", "k">>, <<"s", "l", "a", "c", "k">> >>,
    << <<"n", "o", "n", "e", "x", "i", "s", "t", "e", "n", "t">> >>,
    << <<"s", "q", "l">>, <<"s", "l", "a", "c", "k">>, <<"p", "o", "s", "t", "g", "r", "e", "s">> >> }

Requirements ==
  { ExtractedRequirements(uc, fw, dep, sc, ins) :
      uc \in UseCases \cup {None}, fw \in FrameworkChoice \cup {NoPreference},
      dep \in DeploymentTarget \cup {NoPreference}, sc \in Scales,
      ins \in Integrations }

\* build_recommendation has not been called
NotBuilt == [k |-> "pending"]

PickInit ==
  /\ servers = [id \in ServerIds |-> MCPServerEntry(id)]
  /\ task = [t \in Tasks |-> IdleTask]
  /\ lastWrite = [id \in ServerIds |-> UNKNOWN]
  /\ prev = NoPrev
  /\ call = NoCall
  /\ store = NoStore
  /\ pick \in { [k |-> "reqs", reqs |-> r, ret |-> "pending", rec |-> NotBuilt] :
                 r \in Requirements }
  /\ environ = os_environ

\* pick_framework(reqs) is called and returns
PickFramework ==
  /\ pick.ret = "pending"
  /\ pick' = [pick EXCEPT !.ret = pick_framework(pick.reqs)]
  /\ UNCHANGED <<servers, task, lastWrite, prev, call, store, environ>>

\* build_recommendation(reqs) is called and returns or raises
BuildRecommendation ==
  /\ pick.rec = NotBuilt
  /\ pick' = [pick EXCEPT !.rec = build_recommendation(servers, pick.reqs)]
  /\ UNCHANGED <<servers, task, lastWrite, prev, call, store, environ>>

PickNext == PickFramework \/ BuildRecommendation

PickSpec == PickInit /\ [][PickNext]_vars

(***************************************************************************)
(* Vocabulary of the properties.                                           *)
(***************************************************************************)
Returned(t) == task[t].pc = "done"
Known(t) == task[t].server_id \in ServerIds
Entry(t) == servers[task[t].server_id]
\* t made its update_server_health call in the step that led to this state
WroteNow(t) == Returned(t) /\ task[t].writes = 1

\* the line is a JSON object that has a `result` member
HasResultField(line) ==
  line.k = "json" /\ line.v.t = "dict" /\ "result" \in DOMAIN line.v.o

\* the line is JSON on which Python's `"result" in` test succeeds: an object
\* with a `result` member, an array with the element "result", or a string
\* with the substring "result"
PassesResultTest(line) ==
  /\ line.k = "json"
  /\ \/ line.v.t = "dict" /\ "result" \in DOMAIN line.v.o
     \/ line.v.t = "list" /\ ResultStr \in {line.v.a[i] : i \in 1..Len(line.v.a)}
     \/ line.v.t = "str" /\ \E i, j \in 1..Len(line.v.s) :
                                 SubSeq(line.v.s, i, j) = ResultChars

\* what the message read hands to the handshake for a line: the parsed
\* value, or None when there is none
Parsed(line) == IF line.k = "json" THEN line.v ELSE None

(* C1: every call that spawned a process has invoked _kill exactly once   *)
(* when it returns, on every exit path.                                    *)
C1_KilledExactlyOnce ==
  \A t \in Tasks :
    Returned(t) /\ task[t].proc # "none" => task[t].kills = 1

(* C2 as stated: an entry is HEALTHY only if the check that wrote it       *)
(* received a tools/list response with a `result` field.                   *)
C2_HealthyNeedsToolsResult ==
  \A t \in Tasks :
    WroteNow(t) /\ Known(t) /\ Entry(t).status = HEALTHY
      => HasResultField(task[t].tools_in)

(* C2 as amended: the cached status is always the status of the most       *)
(* recent update_server_health call (UNKNOWN before the first), and a      *)
(* check writes HEALTHY only if its initialize response passed the         *)
(* `"result" in` test; the tools/list response need not have a `result`.   *)
C2_HealthyNeedsInitResult ==
  /\ \A id \in ServerIds : servers[id].status = lastWrite[id]
  /\ \A t \in Tasks :
       WroteNow(t) /\ Known(t) /\ Entry(t).status = HEALTHY
         => PassesResultTest(task[t].init_in)

C2_Witness ==
  \E t \in Tasks :
    /\ WroteNow(t) /\ Known(t) /\ Entry(t).status = HEALTHY
    /\ HasResultField(task[t].init_in)
    /\ task[t].tools_in = Timeout

(* C3: a call for a known server id makes no update_server_health call     *)
(* while it is in flight and has made exactly one, of HEALTHY or           *)
(* UNHEALTHY, when it returns, on every path.                              *)
C3_ExactlyOneTerminalWrite ==
  \A t \in Tasks :
    /\ InFlight(task[t]) => task[t].writes = 0
    /\ Returned(t) /\ Known(t)
         => /\ task[t].writes = 1
            /\ lastWrite[task[t].server_id] \in {HEALTHY, UNHEALTHY}
            /\ Entry(t).status = lastWrite[task[t].server_id]

\* the write is made on the exception path after a spawn
C3_Witness ==
  \E t \in Tasks :
    /\ Returned(t) /\ Known(t) /\ task[t].writes = 1
    /\ task[t].proc = "running" /\ task[t].io_exc # None
    /\ Len(task[t].stdin) = 3

\* the exception Python raises while reading or mapping the line of the
\* given read ("" when it raises none), case by case
ReadFault(line, read) ==
  CASE line.k = "bad_utf8" -> "UnicodeDecodeError"
    [] line.k = "overrun" -> "ValueError"
    [] line = JsonLine(PyInt(5)) -> "TypeError"
    [] read = "tools" /\ line = JsonLine(PyList(<<ResultStr>>)) -> "TypeError"
    [] read = "tools" /\ line = JsonLine(PyDict([result |-> None])) -> "AttributeError"
    [] read = "tools" /\ line = JsonLine(PyDict([result |-> PyDict([tools |-> None])]))
         -> "TypeError"
    [] read = "tools" /\ line = JsonLine(PyDict([result |->
                                PyDict([tools |-> PyList(<<ToolNotDict>>)])]))
         -> "AttributeError"
    [] read = "tools" /\ line = JsonLine(PyDict([result |->
                                PyDict([tools |-> PyList(<<ToolPing, ToolNullName>>)])]))
         -> "ValidationError"
    [] OTHER -> ""

\* the fault that occurred in the pipeline of t's call ("" when none did)
Fault(t) ==
  IF task[t].io_exc # None THEN task[t].io_exc.s[1]
  ELSE IF task[t].tools_in # NoLine THEN ReadFault(task[t].tools_in, "tools")
  ELSE ReadFault(task[t].init_in, "init")

(* C4: a call never raises to its caller; it returns a result, and after   *)
(* a fault (spawn failure, I/O error, exception while parsing or mapping)  *)
(* the result is UNHEALTHY with the exception's message as error and the   *)
(* registry entry is UNHEALTHY.                                            *)
C4_NeverRaises ==
  \A t \in Tasks :
    Returned(t)
      => /\ task[t].exc = None
         /\ task[t].result # None
         /\ task[t].result.server_id = task[t].server_id
         /\ Fault(t) # ""
              => /\ task[t].result.status = UNHEALTHY
                 /\ task[t].result.error = ErrException(Fault(t))
                 /\ Entry(t).status = UNHEALTHY

\* a tool entry with name: null makes MCPToolSchema raise
C4_Witness ==
  \E t \in Tasks :
    /\ Returned(t) /\ Fault(t) = "ValidationError"
    /\ task[t].result.status = UNHEALTHY

(* C5: a call for an id that is not in the registry returns UNHEALTHY with *)
(* tools_count 0, no tools and an error, has spawned no process and        *)
(* written no message, and leaves every registry entry unchanged.          *)
C5_UnknownServer ==
  [][\A t \in Tasks :
       task'[t].pc = "done" /\ task'[t].server_id \notin ServerIds
         => /\ task'[t].result.status = UNHEALTHY
            /\ task'[t].result.tools_count = 0
            /\ task'[t].result.tools = <<>>
            /\ task'[t].result.error # None
            /\ task'[t].proc = "none"
            /\ task'[t].stdin = <<>>
            /\ task'[t].kills = 0 /\ task'[t].writes = 0
            /\ servers' = servers /\ lastWrite' = lastWrite]_vars

C5_Witness ==
  \E t \in Tasks :
    /\ Returned(t) /\ ~Known(t)
    /\ task[t].result.error = ErrUnknownServer(task[t].server_id)
    /\ \E id \in ServerIds : servers[id].status = HEALTHY /\ servers[id].tools # <<>>

\* the process of t's call never wrote a line to its stdout
Silent(t) == task[t].init_in.k \in {"none", "timeout", "eof"}

(* C6: a call whose process never writes to stdout returns UNHEALTHY with  *)
(* the initialize-failure error, has written nothing but the initialize    *)
(* request, and its process is terminated when it returns.                 *)
C6_SilentProcess ==
  \A t \in Tasks :
    Returned(t) /\ task[t].proc # "none" /\ Silent(t)
      => /\ task[t].result.status = UNHEALTHY
         /\ task[t].result.error = ErrInitializeFailed(None)
         /\ task[t].stdin = <<_JSONRPC_INIT>>
         /\ task[t].proc \in {"killed", "exited"}

(* C7: the handshake goes on past the initialize read (writes the          *)
(* initialized notification) iff the line read is a message with a         *)
(* `result` field; after any other line the call has returned UNHEALTHY    *)
(* with tools_count 0 and the initialize-failure error that embeds the     *)
(* response, or None.                                                      *)
C7_InitializedIffResult ==
  \A t \in Tasks :
    task[t].init_in # NoLine
      => IF HasResultField(task[t].init_in)
           THEN Len(task[t].stdin) >= 2
           ELSE /\ Returned(t) /\ task[t].tools_in = NoLine
                /\ task[t].stdin = <<_JSONRPC_INIT>>
                /\ task[t].result.status = UNHEALTHY
                /\ task[t].result.tools_count = 0
                /\ task[t].result.error = ErrInitializeFailed(Parsed(task[t].init_in))

\* a tools/list read that brought no message with a `result`: a timeout,
\* the end of the stream, a line that cannot be decoded, or a message
\* (null or an object) without `result`
Degraded(line) ==
  \/ line.k \in {"timeout", "eof", "not_json", "bad_utf8"}
  \/ /\ line.k = "json"
     /\ \/ line.v = None
        \/ line.v.t = "dict" /\ "result" \notin DOMAIN line.v.o

(* C8: after a successful initialize, a degraded tools/list read does not  *)
(* fail the check: the call returns HEALTHY with no tools and writes       *)
(* HEALTHY to the registry.                                                *)
C8_ToolsListBestEffort ==
  \A t \in Tasks :
    Returned(t) /\ HasResultField(task[t].init_in) /\ Degraded(task[t].tools_in)
      => /\ task[t].result.status = HEALTHY
         /\ task[t].result.tools_count = 0
         /\ task[t].result.tools = <<>>
         /\ Entry(t).status = HEALTHY

\* the raw entries of result.tools of a tools/list line (none when absent)
RawEntries(line) ==
  LET res == line.v.o["result"] IN
  IF res.t = "dict" /\ "tools" \in DOMAIN res.o /\ res.o["tools"].t = "list"
    THEN res.o["tools"].a ELSE <<>>

\* the tool schema the spec maps a raw entry to
ExpectedTool(raw) ==
  LET has(key) == raw.t = "dict" /\ key \in DOMAIN raw.o IN
  [name |-> IF has("name") THEN raw.o["name"] ELSE EmptyStr,
   description |-> IF has("description") THEN raw.o["description"] ELSE EmptyStr,
   input_schema |-> IF has("inputSchema") THEN raw.o["inputSchema"] ELSE EmptyDict]

ExpectedTools(line) ==
  [i \in 1..Len(RawEntries(line)) |-> ExpectedTool(RawEntries(line)[i])]

\* result is an object whose `tools`, when present, is an array of objects
\* with a string name, a string description and an object inputSchema
\* wherever the entry has them
WellFormedTools(line) ==
  LET res == line.v.o["result"] IN
  /\ res.t = "dict"
  /\ "tools" \in DOMAIN res.o =>
       /\ res.o["tools"].t = "list"
       /\ \A i \in 1..Len(res.o["tools"].a) :
            LET raw == res.o["tools"].a[i] IN
            /\ raw.t = "dict"
            /\ "name" \in DOMAIN raw.o => raw.o["name"].t = "str"
            /\ "description" \in DOMAIN raw.o => raw.o["description"].t = "str"
            /\ "inputSchema" \in DOMAIN raw.o => raw.o["inputSchema"].t = "dict"

FullHandshake(t) ==
  /\ Returned(t)
  /\ HasResultField(task[t].init_in) /\ HasResultField(task[t].tools_in)

(* C9 as stated: after every handshake in which initialize and tools/list  *)
(* both return a `result`, the call returns HEALTHY with the mapped tool   *)
(* list and its length.                                                    *)
C9_FullHandshakeHealthy ==
  \A t \in Tasks :
    FullHandshake(t)
      => /\ task[t].result.status = HEALTHY
         /\ task[t].result.tools = ExpectedTools(task[t].tools_in)
         /\ task[t].result.tools_count = Len(task[t].result.tools)

(* C9 as amended: the same, for the handshakes whose tools/list result is  *)
(* well formed (an object; `tools` absent or an array of objects with      *)
(* string name and description and object inputSchema where present).      *)
C9_WellFormedHandshakeHealthy ==
  \A t \in Tasks :
    FullHandshake(t) /\ WellFormedTools(task[t].tools_in)
      => /\ task[t].result.status = HEALTHY
         /\ task[t].result.tools = ExpectedTools(task[t].tools_in)
         /\ task[t].result.tools_count = Len(task[t].result.tools)
         /\ Entry(t).tools = task[t].result.tools

C9_Witness ==
  \E t \in Tasks :
    /\ FullHandshake(t)
    /\ RawEntries(task[t].tools_in) = <<ToolFull, ToolEmpty>>
    /\ task[t].result.tools_count = 2

(* C10: concurrent checks of one server id each have their own process -   *)
(* a process is created for a task only by that task's spawn and stops     *)
(* running only by that task's _kill - and the last write wins: the cached *)
(* status is always that of the most recent update_server_health call,     *)
(* which is the status the check that made it returns.                     *)
C10_LastWriteWins ==
  [][/\ \A id \in ServerIds : servers'[id].status = lastWrite'[id]
     /\ \A t \in Tasks :
          task'[t].pc = "done" /\ task'[t].writes = 1
            => servers'[task'[t].server_id].status = task'[t].result.status
     /\ \A u \in Tasks :
          /\ task[u].proc = "none" /\ task'[u].proc # "none"
               => task[u].pc = "spawn" /\ task'[u].proc = "running"
          /\ InFlight(task[u]) /\ task[u].proc = "running" /\ task'[u].proc # "running"
               => task'[u].kills = task[u].kills + 1]_vars

\* t writes UNHEALTHY and returns, its own process killed, while u is in
\* the middle of a check of the same server with its own process running
C10_Witness ==
  \E t, u \in Tasks :
    /\ t # u
    /\ WroteNow(t) /\ task[t].proc = "killed"
    /\ task[t].result.status = UNHEALTHY /\ Entry(t).status = UNHEALTHY
    /\ task[u].pc = "read_tools" /\ task[u].server_id = task[t].server_id
    /\ task[u].proc = "running"

(* C11: the environment the spawned process is given is the ambient        *)
(* environment overlaid with env_overrides: the child sees the override    *)
(* value of every name env_overrides has, also when the ambient            *)
(* environment defines it, the ambient value of every other name, and no   *)
(* other name.                                                             *)
C11_EnvOverlay ==
  \A t \in Tasks :
    task[t].proc # "none"
      => LET ov == IF task[t].env_overrides = None
                     THEN [k \in {} |-> ""] ELSE task[t].env_overrides.o
             child == task[t].proc_env.o
         IN  /\ DOMAIN child = DOMAIN os_environ \cup DOMAIN ov
             /\ \A name \in DOMAIN ov : child[name] = ov[name]
             /\ \A name \in DOMAIN os_environ \ DOMAIN ov :
                  child[name] = os_environ[name]

\* the override of X wins over the ambient X, PATH is inherited
C11_Witness ==
  \E t \in Tasks :
    /\ task[t].proc = "running"
    /\ task[t].env_overrides = PyDict([X |-> "1", TOKEN |-> "s3cret"])
    /\ os_environ["X"] = "0" /\ task[t].proc_env.o["X"] = "1"
    /\ task[t].proc_env.o["TOKEN"] = "s3cret"
    /\ task[t].proc_env.o["PATH"] = os_environ["PATH"]

\* the process of t's call did what the process of the caller's previous
\* call of the same server did: the same lines, the same I/O failure at the
\* same message
SameAnswers(t) ==
  /\ prev # NoPrev
  /\ prev.server_id = task[t].server_id
  /\ prev.init_in = task[t].init_in /\ prev.tools_in = task[t].tools_in
  /\ prev.io_exc = task[t].io_exc /\ prev.failed_at = FailedAt(t)

\* result and registry entry of t's call are those of the call before
SameOutcome(t) ==
  /\ task[t].result.status = prev.status
  /\ task[t].result.tools = prev.tools
  /\ Entry(t).status = prev.entry.status
  /\ Entry(t).tools = prev.entry.tools

(* C12: two checks in sequence of a server whose process answers           *)
(* identically both times return equal status and equal tools, and the     *)
(* registry's cached status and tools after the second equal those after   *)
(* the first.                                                              *)
C12_Idempotent ==
  \A t \in Tasks :
    Returned(t) /\ Known(t) /\ SameAnswers(t) => SameOutcome(t)

\* a second HEALTHY check with two tools
C12_Witness ==
  \E t \in Tasks :
    /\ Returned(t) /\ Known(t) /\ SameAnswers(t)
    /\ task[t].result.status = HEALTHY /\ Len(task[t].result.tools) = 2
    /\ Len(Entry(t).tools) = 2

(* C13: update_server_health(id, status, tools) for an id of the registry  *)
(* sets the entry's status, replaces the cached tools when tools is        *)
(* supplied (an empty list too), leaves them when it is omitted, and       *)
(* stamps last_health_check; for an absent id it changes nothing and adds  *)
(* no entry; every other entry and every other field stays as it is.       *)
C13_UpdateFrame ==
  [][call'.op = "update_server_health"
       => LET c == call' IN
          /\ DOMAIN servers' = DOMAIN servers
          /\ \A id \in DOMAIN servers \ {c.server_id} : servers'[id] = servers[id]
          /\ c.server_id \in DOMAIN servers
               => /\ servers'[c.server_id].status = c.status
                  /\ c.tools # None => servers'[c.server_id].tools = c.tools.a
                  /\ c.tools = None
                       => servers'[c.server_id].tools = servers[c.server_id].tools
                  /\ servers'[c.server_id].last_health_check = PyInt(c.now)
                  /\ servers'[c.server_id] =
                       [servers[c.server_id] EXCEPT
                          !.status = servers'[c.server_id].status,
                          !.tools = servers'[c.server_id].tools,
                          !.last_health_check = servers'[c.server_id].last_health_check]
          /\ c.server_id \notin DOMAIN servers => servers' = servers]_vars

\* an empty list has replaced the cached tools of one entry while the other
\* entry keeps its tools
C13_Witness ==
  /\ call.op = "update_server_health"
  /\ call.server_id = "postgres" /\ call.tools = PyList(<<>>)
  /\ servers["postgres"].tools = <<>> /\ servers["postgres"].status = CHECKING
  /\ Len(servers["slack"].tools) = 2 /\ servers["slack"].status = HEALTHY

\* t's call failed at the spawn
SpawnFailure(t) ==
  Returned(t) /\ task[t].proc = "none" /\ task[t].io_exc # None

(* C14: a check whose executable cannot be launched has written no         *)
(* handshake message and returns UNHEALTHY with the spawn exception's      *)
(* message as error, not the initialize-failure message; the registry      *)
(* entry is UNHEALTHY, no _kill was attempted and nothing was raised.      *)
C14_SpawnFailure ==
  \A t \in Tasks :
    SpawnFailure(t)
      => /\ task[t].stdin = <<>> /\ task[t].init_in = NoLine
         /\ task[t].result.status = UNHEALTHY
         /\ task[t].result.tools = <<>>
         /\ task[t].result.error = ErrException(task[t].io_exc.s[1])
         /\ task[t].result.error.fmt # ErrInitializeFailed(None).fmt
         /\ Entry(t).status = UNHEALTHY
         /\ task[t].kills = 0 /\ task[t].exc = None

C14_Witness ==
  \E t \in Tasks :
    /\ SpawnFailure(t)
    /\ task[t].result.error = ErrException("FileNotFoundError")
    /\ Entry(t).status = UNHEALTHY

\* a JSON value without its top-level `id` member
StripId(v) ==
  IF v.t = "dict" THEN PyDict([k \in DOMAIN v.o \ {"id"} |-> v.o[k]]) ELSE v

\* two lines that differ at most in the `id` of the message
SameButId(a, b) ==
  /\ a.k = b.k
  /\ a.k = "json" => StripId(a.v) = StripId(b.v)

\* the process of t's call did what the process of the caller's previous
\* call of the same server did, except for the `id` of a response: the same
\* I/O failure at the same message, and the responses that were read in
\* both runs differ in nothing but their `id`
DiffersInId(t) ==
  /\ prev # NoPrev
  /\ prev.server_id = task[t].server_id
  /\ prev.io_exc = task[t].io_exc /\ prev.failed_at = FailedAt(t)
  /\ prev.init_in # NoLine /\ task[t].init_in # NoLine
  /\ SameButId(prev.init_in, task[t].init_in)
  /\ prev.tools_in # NoLine /\ task[t].tools_in # NoLine
       => SameButId(prev.tools_in, task[t].tools_in)
  /\ prev.init_in # task[t].init_in \/ prev.tools_in # task[t].tools_in

(* C15: two runs whose initialize and tools/list responses differ only     *)
(* in their `id` (a matching id, another id, no id) return the same status *)
(* and tools and write the same status and tools to the registry.          *)
C15_IdIndependent ==
  \A t \in Tasks :
    Returned(t) /\ Known(t) /\ DiffersInId(t) => SameOutcome(t)

\* both responses carry the id 9, which no request has; the run before
\* had the matching ids
C15_Witness ==
  \E t \in Tasks :
    /\ Returned(t) /\ DiffersInId(t)
    /\ prev.init_in = JsonLine(PyDict([result |-> EmptyDict, id |-> PyInt(1)]))
    /\ task[t].init_in = JsonLine(PyDict([result |-> EmptyDict, id |-> PyInt(9)]))
    /\ prev.tools_in =
         JsonLine(PyDict([result |-> PyDict([tools |-> PyList(<<ToolPing>>)]),
                          id |-> PyInt(2)]))
    /\ task[t].tools_in =
         JsonLine(PyDict([result |-> PyDict([tools |-> PyList(<<ToolPing>>)]),
                          id |-> PyInt(9)]))
    /\ task[t].result.status = HEALTHY /\ Len(task[t].result.tools) = 1

(* C16: the registry's set of ids is constant; of an entry only status,    *)
(* tools and last_health_check ever change, and only in the step in which  *)
(* a health check of that id reaches its outcome and makes its one         *)
(* update_server_health call.                                              *)
C16_RegistryConstant ==
  [][/\ DOMAIN servers' = DOMAIN servers
     /\ \A id \in DOMAIN servers :
          /\ servers'[id] = [servers[id] EXCEPT
                               !.status = servers'[id].status,
                               !.tools = servers'[id].tools,
                               !.last_health_check = servers'[id].last_health_check]
          /\ servers'[id] # servers[id]
               => \E t \in Tasks :
                    /\ InFlight(task[t]) /\ task'[t].pc = "done"
                    /\ task'[t].server_id = id
                    /\ task[t].writes = 0 /\ task'[t].writes = 1
                    /\ servers'[id].status = task'[t].result.status]_vars

\* a check has changed the entry it addressed, the other entry is as
\* registered
C16_Witness ==
  \E t \in Tasks :
    /\ WroteNow(t) /\ task[t].server_id = "postgres"
    /\ servers["postgres"].status = HEALTHY
    /\ servers["postgres"].tools # <<>>
    /\ servers["postgres"].last_health_check # None
    /\ servers["slack"] = MCPServerEntry("slack")

\* the request names a project
Supplied(project_id) == project_id # None /\ project_id # EmptyStr

(* C17: the health-check route answers 404 for an id that is not in the    *)
(* registry without calling check_server_health or the credential store;   *)
(* for a known id it calls get_decrypted_env(project_id, server_id) iff a  *)
(* project id is supplied and passes that mapping as env_overrides, and    *)
(* passes no overrides otherwise.                                          *)
C17_RouteConsultsStore ==
  \A t \in Tasks :
    task[t].http # None
      => LET h == task[t].http
             id == task[t].server_id
         IN  IF id \notin ServerIds
               THEN /\ Returned(t)
                    /\ task[t].exc = PyStr(<<"HTTPException(404)">>)
                    /\ h.consulted = <<>> /\ h.invoked = <<>>
                    /\ task[t].proc = "none" /\ task[t].writes = 0
               ELSE /\ task[t].exc = None
                    /\ IF Supplied(h.project_id)
                         THEN /\ h.consulted = << <<h.project_id, id>> >>
                              /\ h.invoked =
                                   << <<id, get_decrypted_env(h.project_id, id)>> >>
                         ELSE /\ h.consulted = <<>>
                              /\ h.invoked = << <<id, None>> >>
                    /\ task[t].env_overrides = h.invoked[1][2]

\* a request with a project id whose credentials reach the process
C17_Witness ==
  \E t \in Tasks :
    /\ task[t].http # None /\ task[t].http.project_id = PyStr(<<"p1">>)
    /\ Len(task[t].http.consulted) = 1
    /\ task[t].proc = "running"
    /\ task[t].proc_env.o["TOKEN"] = "s3cret"

\* the sessions that are live: last created or saved under an id and not
\* deleted since
LiveRefs(st) == {st.live[id] : id \in SessionIds} \ {NoRef}

C19_DeleteFrame ==
  [][store'.last.op = "delete"
       => LET id == store'.last.arg
              present == id \in DictKeys(store.st.sessions)
          IN  /\ store'.last.ret = present
              /\ SessionStore_get(store'.st, id) = NoRef
              /\ \A other \in SessionIds \ {id} :
                   SessionStore_get(store'.st, other) = SessionStore_get(store.st, other)
              /\ Len(store'.st.sessions) = Len(store.st.sessions) - (IF present THEN 1 ELSE 0)
              /\ store'.st.objects = store.st.objects
              /\ ~present => store'.st = store.st
              /\ store.last.op = "delete" /\ store.last.arg = id /\ store.last.ret
                   => ~store'.last.ret]_vars

\* one of two stored sessions was deleted, the other is still there
C19_Witness ==
  /\ store # NoStore
  /\ store.last.op = "delete" /\ store.last.ret
  /\ Len(store.st.objects) = 2 /\ Len(store.st.sessions) = 1
  /\ SessionStore_get(store.st, store.last.arg) = NoRef
  /\ \E other \in SessionIds : SessionStore_get(store.st, other) # NoRef

\* the use case, lower-cased, mentions the word
Mentions(use_case, word) ==
  use_case # None /\ Contains(Lower(use_case.s), word)

Support == <<"s", "u", "p", "p", "o", "r", "t">>
Research == <<"r", "e", "s", "e", "a", "r", "c", "h">>
Rust == <<"r", "u", "s", "t">>
Golang == <<"g", "o", "l", "a", "n", "g">>

\* of the four words the use case mentions this one and no other
OnlyMentions(use_case, word) ==
  /\ Mentions(use_case, word)
  /\ \A other \in {Support, Research, Rust, Golang} \ {word} :
       ~Mentions(use_case, other)

(* C20: pick_framework returns the framework preference when one is set,   *)
(* for every FrameworkChoice value; with no preference it returns CREWAI   *)
(* for a use case mentioning support, LANGGRAPH for research, RIG for      *)
(* rust, ADK_GO for golang, and LANGGRAPH when no keyword matches or no    *)
(* use case is given.                                                      *)
C20_PickFramework ==
  pick # NoPick /\ pick.ret # "pending"
    => LET uc == pick.reqs.use_case
           fw == pick.reqs.framework_preference
       IN  IF fw # NoPreference THEN pick.ret = fw
           ELSE /\ OnlyMentions(uc, Support) => pick.ret = CREWAI
                /\ OnlyMentions(uc, Research) => pick.ret = LANGGRAPH
                /\ OnlyMentions(uc, Rust) => pick.ret = RIG
                /\ OnlyMentions(uc, Golang) => pick.ret = ADK_GO
                /\ uc = None \/ uc = PyStr(<<"s", "o", "m", "e", "t", "h", "i", "n", "g", " ", "g", "e", "n", "e", "r", "i", "c">>)
                     => pick.ret = LANGGRAPH

(* C21: build_recommendation returns a Recommendation for every            *)
(* ExtractedRequirements, with framework pick_framework(reqs) and          *)
(* deployment pick_deployment(reqs); it raises for no framework            *)
(* preference, VERCEL_AI included.                                         *)
C21_BuildRecommendation ==
  pick # NoPick /\ pick.rec # NotBuilt
    => /\ ~pick.rec.raised
       /\ pick.rec.v.framework = pick_framework(pick.reqs)
       /\ pick.rec.v.deployment = pick_deployment(pick.reqs)

\* the three messages of a handshake, in the order the code writes them
HandshakeMessages ==
  << _JSONRPC_INIT, _JSONRPC_INITIALIZED, _JSONRPC_LIST_TOOLS >>

(* C22: the steps of one check are sequential: what has been written is a  *)
(* prefix of initialize, initialized (which has no id), tools/list; the    *)
(* initialize response is read when only initialize has been written;      *)
(* the notification and tools/list are written only after an initialize    *)
(* response that has a `result` field; the tools/list response is read     *)
(* once, after all three are written, and is read by every check that      *)
(* wrote tools/list and met no I/O error.                                  *)
C22_SequentialHandshake ==
  \A t \in Tasks :
    LET tk == task[t]
        n == Len(tk.stdin)
    IN  /\ n <= 3 /\ tk.stdin = SubSeq(HandshakeMessages, 1, n)
        /\ "id" \notin DOMAIN HandshakeMessages[2]
        /\ tk.pc \in {"drain_init", "read_init"}
             => n = 1 /\ tk.init_in = NoLine
        /\ tk.init_in # NoLine => n >= 1
        /\ n >= 2 => HasResultField(tk.init_in)
        /\ ~HasResultField(tk.init_in) => tk.tools_in = NoLine
        /\ tk.pc \in {"drain_notif", "drain_list", "read_tools"}
             => tk.tools_in = NoLine
        /\ tk.tools_in # NoLine => n = 3 /\ Returned(t)
        /\ Returned(t) /\ n = 3 /\ tk.io_exc = None => tk.tools_in # NoLine

\* the read met one of the three cases: the timeout elapsed, the stream
\* ended, or the line is not a JSON message (not UTF-8, or not JSON)
NoMessage(line) == line.k \in {"timeout", "eof", "bad_utf8", "not_json"}

(* C23: in each of the three cases - timeout, end of stream, a line that   *)
(* cannot be decoded (bytes that are not UTF-8 included) - the message     *)
(* read returns None and raises nothing, and the handshake goes on as      *)
(* with no response: a failed initialize with `None` in its error, or a    *)
(* HEALTHY result with no tools.                                           *)
C23_ReadReturnsNone ==
  \A t \in Tasks :
    /\ NoMessage(task[t].init_in)
         => /\ _read_response(task[t].init_in) = Ok(None)
            /\ Returned(t) /\ task[t].exc = None
            /\ task[t].result.status = UNHEALTHY
            /\ task[t].result.error = ErrInitializeFailed(None)
    /\ NoMessage(task[t].tools_in)
         => /\ _read_response(task[t].tools_in) = Ok(None)
            /\ Returned(t) /\ task[t].exc = None
            /\ task[t].result.status = HEALTHY
            /\ task[t].result.tools = <<>>

(* C24: _kill never raises; on a process that has exited it changes        *)
(* nothing, and a second _kill on a process already killed has no further  *)
(* effect; a running process is killed by it or has exited by itself.      *)
C24_KillIdempotent ==
  call.op = "procs" /\ call.last # NoKill
    => /\ ~call.last.raised
       /\ call.last.before \in {"exited", "killed"}
            => call.last.after = call.last.before
       /\ call.last.before = "running"
            => call.last.after = (IF call.last.exited THEN "exited" ELSE "killed")

C24_Witness ==
  /\ call.op = "procs" /\ call.last # NoKill
  /\ \E p \in Tasks : \E q \in Tasks \ {p} :
       /\ call.last.p = p /\ call.procs[p].kills = 2
       /\ call.last.before = "killed" /\ call.procs[p].proc = "killed"
       /\ call.procs[q].proc = "exited" /\ call.procs[q].kills = 1

(* C25: when a check returns HEALTHY the registry's cached tools of its     *)
(* server are exactly the tools of its result, whatever was cached before:  *)
(* nothing of the earlier list is kept, and a result with no tools leaves   *)
(* an empty cached list.                                                    *)
C25_HealthyReplacesTools ==
  \A t \in Tasks :
    Returned(t) /\ Known(t) /\ task[t].result.status = HEALTHY
      => /\ Entry(t).tools = task[t].result.tools
         /\ Len(Entry(t).tools) = task[t].result.tools_count

\* a HEALTHY check with no tools, after one that had cached a tool
C25_Witness ==
  \E t \in Tasks :
    /\ Returned(t) /\ Known(t) /\ task[t].result.status = HEALTHY
    /\ prev # NoPrev /\ prev.server_id = task[t].server_id
    /\ prev.entry.status = HEALTHY /\ Len(prev.entry.tools) = 2
    /\ task[t].result.tools = <<>> /\ Entry(t).tools = <<>>

\* task t calls update_server_health in this step
Updates(t) == task'[t].writes > task[t].writes

(* C26: a registry write is one step: in the step in which a check calls   *)
(* update_server_health the entry gets the new status, the new             *)
(* last_health_check and (on HEALTHY) the new tools together, so that no   *)
(* state between two steps - what another task or a reader can see - has   *)
(* the new status with the tools or the time stamp of before; no other     *)
(* step changes the entry.                                                 *)
C26_AtomicUpdate ==
  [][ /\ \A t \in Tasks :
           Updates(t) /\ task'[t].server_id \in ServerIds
             => LET id == task'[t].server_id IN
                /\ Returned(t)'
                /\ servers'[id].status = task'[t].result.status
                /\ servers'[id].last_health_check \in {PyInt(n) : n \in Times}
                /\ servers'[id].tools =
                     (IF task'[t].result.status = HEALTHY
                        THEN task'[t].result.tools ELSE servers[id].tools)
      /\ \A id \in ServerIds :
           servers'[id] # servers[id]
             => \E t \in Tasks : Updates(t) /\ task'[t].server_id = id
    ]_vars

\* a check has just written HEALTHY with a tool while another check of the
\* same server is in flight
C26_Witness ==
  \E t \in Tasks : \E u \in Tasks \ {t} :
    /\ WroteNow(t) /\ Known(t) /\ task[t].result.status = HEALTHY
    /\ Len(task[t].result.tools) = 1 /\ Entry(t).tools = task[t].result.tools
    /\ Entry(t).status = HEALTHY /\ Entry(t).last_health_check # None
    /\ task[u].pc = "read_init" /\ task[u].server_id = task[t].server_id

(* C27: env_overrides reach one spawn only: os.environ is never changed,   *)
(* the caller's mapping is after the call what it was when passed, and a   *)
(* check made without overrides spawns its process with the ambient        *)
(* environment as it was at start, whatever checks came before.            *)
C27_OverridesOneSpawn ==
  /\ environ = os_environ
  /\ \A t \in Tasks :
       /\ task[t].env_overrides = task[t].given
       /\ task[t].proc # "none" /\ ~Truthy(task[t].given)
            => task[t].proc_env = PyDict(os_environ)

\* a check without overrides, spawned after a check whose overrides set X
\* and TOKEN
C27_Witness ==
  \E t \in Tasks :
    /\ prev # NoPrev /\ prev.spawned
    /\ prev.given = PyDict([X |-> "1", TOKEN |-> "s3cret"])
    /\ prev.proc_env.o["X"] = "1"
    /\ task[t].proc = "running" /\ task[t].given = None
    /\ task[t].proc_env.o["X"] = "0"
    /\ "TOKEN" \notin DOMAIN task[t].proc_env.o

(* C28: a check that ends UNHEALTHY (failed initialize, failed spawn,      *)
(* exception) changes nothing of the registry but the status and the       *)
(* last_health_check of its entry: the tools an earlier HEALTHY check      *)
(* cached stay, so an entry can be UNHEALTHY and list tools.               *)
C28_UnhealthyKeepsTools ==
  [][ \A t \in Tasks :
        /\ Returned(t)' /\ ~Returned(t)
        /\ task'[t].server_id \in ServerIds
        /\ task'[t].result.status = UNHEALTHY
        => LET id == task'[t].server_id IN
           /\ servers'[id].status = UNHEALTHY
           /\ servers'[id].last_health_check \in {PyInt(n) : n \in Times}
           /\ servers'[id].tools = servers[id].tools
           /\ servers' = [servers EXCEPT
                            ![id].status = UNHEALTHY,
                            ![id].last_health_check = servers'[id].last_health_check]
    ]_vars

\* an UNHEALTHY check after a HEALTHY one that cached two tools: one that
\* failed at initialize, at the spawn, or by an exception
C28_Witness ==
  \E t \in Tasks :
    /\ Returned(t) /\ Known(t) /\ task[t].result.status = UNHEALTHY
    /\ prev # NoPrev /\ prev.server_id = task[t].server_id
    /\ prev.entry.status = HEALTHY /\ Len(prev.entry.tools) = 2
    /\ Entry(t).status = UNHEALTHY /\ Entry(t).tools = prev.entry.tools
    /\ task[t].init_in = Timeout

(* C29: no entry is ever CHECKING; an entry's last_health_check is null    *)
(* exactly when its status is UNKNOWN; when a check of a registered id     *)
(* has completed the entry is HEALTHY or UNHEALTHY, and an entry that has  *)
(* left UNKNOWN never returns to it.                                       *)
C29_StatusLifecycle ==
  /\ [](\A id \in ServerIds :
          /\ servers[id].status \in {UNKNOWN, HEALTHY, UNHEALTHY}
          /\ servers[id].last_health_check = None
               <=> servers[id].status = UNKNOWN)
  /\ [](\A t \in Tasks :
          Returned(t) /\ Known(t) => Entry(t).status \in {HEALTHY, UNHEALTHY})
  /\ [][\A id \in ServerIds :
          servers[id].status # UNKNOWN => servers'[id].status # UNKNOWN]_vars

\* postgres has been checked and is checked again; slack never was
C29_Witness ==
  \E t \in Tasks :
    /\ task[t].pc = "read_tools" /\ task[t].server_id = "postgres"
    /\ servers["postgres"].status = UNHEALTHY
    /\ servers["postgres"].last_health_check # None
    /\ servers["slack"].status = UNKNOWN
    /\ servers["slack"].last_health_check = None

\* task t makes a HEALTHY write to the entry of id in this step
WritesHealthy(t, id) ==
  /\ Updates(t) /\ task'[t].server_id = id
  /\ task'[t].result.status = HEALTHY

(* C30: with concurrent checks of one server, a HEALTHY entry always       *)
(* holds the tools of the check that made the most recent HEALTHY write:   *)
(* after every step a HEALTHY entry either was written HEALTHY in that     *)
(* step by one check, whose tools it now holds, or was HEALTHY before the  *)
(* step and was not written, its tools unchanged.                          *)
C30_HealthyToolsOfWriter ==
  [][ \A id \in ServerIds :
        servers'[id].status = HEALTHY
          => \/ \E t \in Tasks :
                  /\ WritesHealthy(t, id)
                  /\ servers'[id].tools = task'[t].result.tools
                  /\ \A u \in Tasks \ {t} : ~Updates(u)
             \/ /\ servers[id].status = HEALTHY
                /\ servers'[id].tools = servers[id].tools
                /\ \A t \in Tasks : ~(Updates(t) /\ task'[t].server_id = id)
    ]_vars

\* t has just written HEALTHY with two tools; u, a check of the same server
\* started before t returned, is about to read its own tools/list response
C30_Witness ==
  \E t \in Tasks : \E u \in Tasks \ {t} :
    /\ WroteNow(t) /\ Known(t) /\ task[t].result.status = HEALTHY
    /\ Len(task[t].result.tools) = 2
    /\ Entry(t).status = HEALTHY /\ Entry(t).tools = task[t].result.tools
    /\ task[u].pc = "read_tools" /\ task[u].server_id = task[t].server_id
    /\ task[u].proc = "running"
====
